---------------------------- MODULE Spec2Model ----------------------------
(***************************************************************************)
(* The application driver loop of iced_baseview (run_instance, update,     *)
(* run_action in src/src/iced_baseview/application.rs).                    *)
(*                                                                         *)
(* The loop is modelled as a state machine whose program counter pc names  *)
(* the statement the loop is at.  pc = "wait" is the top of the loop       *)
(* (event_receiver.next()); every other value is a position inside one     *)
(* handler, and exactly one step is enabled there, so a handler always     *)
(* runs to its end before the next event is received.  log is the list of  *)
(* calls made to the collaborators (widget tree, user application,         *)
(* subscription runtime, compositor) since the current event was received. *)
(***************************************************************************)
EXTENDS Integers, Sequences, FiniteSets, TLC

\* ------------------------------------------------------------------ bounds
MaxEvents   == 2   \* longest event queue explored
MaxMessages == 2   \* longest message queue explored
NumMsgs     == 2   \* number of distinct user messages
MaxDim      == 1   \* largest physical width / height explored
MaxVersion  == 1   \* largest viewport version explored
MaxPublished == 1  \* most messages the widget tree publishes in one dispatch
MaxChain    == 2   \* longest Outcome::Chain of a widget operation explored
NumEditorSubs == 2 \* subscription identities the editor can declare
MaxSent     == 6   \* most parameter updates sent on the channel
MaxCoord    == 3   \* largest coordinate of a point tested against the triangle
MaxSide     == 2   \* largest width / height of the bounds tested
MaxDrag     == 1   \* pointer columns inside the handle, less one

\* ------------------------------------------------------------------ values
None     == 0
Messages == 1..NumMsgs
Dims     == 0..MaxDim
Statuses == {"Ignored", "Captured"}

\* Normalized (iced) events held in the event queue.
ResizedEvent(w, h) == [kind |-> "Resized", w |-> w, h |-> h]
MouseEvent         == [kind |-> "Mouse",   w |-> 0, h |-> 0]
KeyEvent           == [kind |-> "Key",     w |-> 0, h |-> 0]

\* Raw host (baseview) events.
HostEvents ==
    {[kind |-> "Mouse", w |-> 0, h |-> 0], [kind |-> "Key", w |-> 0, h |-> 0]}
        \cup {[kind |-> "Resized", w |-> w, h |-> h] : w \in Dims, h \in Dims}

\* Pointer events: the left button, and the pointer moved to (w, h).
ButtonPressedEvent  == [kind |-> "ButtonPressed",  w |-> 0, h |-> 0]
ButtonReleasedEvent == [kind |-> "ButtonReleased", w |-> 0, h |-> 0]
CursorMovedEvent    == [kind |-> "CursorMoved",    w |-> 0, h |-> 0]

SubsValues == [on_frame : BOOLEAN, on_window_will_close : BOOLEAN, on_resize : BOOLEAN]

PresentResults == {"Ok", "OutOfMemory", "Lost"}

Min(a, b) == IF a < b THEN a ELSE b

\* All sequences over S of length at most n.
SeqsUpTo(S, n) == UNION {[1..k -> S] : k \in 0..n}

VARIABLES
    pc,                 \* position of the loop
    handler,            \* the RuntimeEvent being (or last) handled
    ret,                \* caller of the running update cycle: "frame" | "close"
    events,             \* Vec of normalized events          (line 331)
    messages,           \* Vec of user messages              (line 332)
    draining,           \* messages.drain(..) not yet yielded (line 656)
    pairs,              \* events.drain(..).zip(statuses) not yet yielded (line 396)
    redraw_requested,   \* line 345
    needs_update,       \* line 348
    did_process_event,  \* line 349
    always_redraw,      \* settings.always_redraw
    window_subs,        \* which WindowSubs callbacks are registered
    ui,                 \* phase of the widget tree: "built" | "cached" | "dropped"
    viewport_version,   \* version last presented            (line 328)
    state_version,      \* state.viewport_version()
    physical_size,      \* state.physical_size()
    log,                \* collaborator calls made by the current handler
    dispatched,         \* the events and statuses of the running dispatch block
    broadcasts,         \* Interaction events broadcast by the running dispatch block
    relayouts,          \* relayouts since state_version last changed
    ticked,             \* a MainEventsCleared has already got past the idle skip
    running,            \* identities of the subscription sources the runtime keeps alive
    editor_sources,     \* identities the editor's subscription() can declare
    editor_slots,       \* callback registrations the editor's subscription() can make
    wrapped,            \* the Application is IcedEditorWrapperApplication
    producing,          \* whose messages the on_frame and on_window_will_close slots yield
    param_updates,      \* the parameter-update channel and the stream reading it
    probe,              \* a call of intersects_triangle: its arguments and result
    handle,             \* the ResizeHandle of the tree, when the tree holds one
    cursor              \* state.cursor(): the pointer position, when available

vars == <<pc, handler, ret, events, messages, draining, pairs, redraw_requested,
          needs_update, did_process_event, always_redraw, window_subs, ui,
          viewport_version, state_version, physical_size, log, dispatched, broadcasts,
          relayouts, ticked, running, editor_sources, editor_slots, wrapped, producing, param_updates, probe,
          handle, cursor>>

\* The variables of the driver loop.
driverVars == <<pc, handler, ret, events, messages, draining, pairs, redraw_requested,
                needs_update, did_process_event, always_redraw, window_subs, ui,
                viewport_version, state_version, physical_size, log, dispatched,
                broadcasts, relayouts, ticked, running, editor_sources, editor_slots, wrapped, producing>>


\* ----------------------------------------------------------------- helpers
NoDispatch == [events |-> <<>>, statuses |-> <<>>]

Entry(op, arg) == <<op, arg>>

\* What a registered callback (on_frame, on_resize, on_window_will_close)
\* may return when the message queue is q: None or Some(message).
CallbackReturns(q) ==
    IF Len(q) < MaxMessages THEN {None} \cup Messages ELSE {None}

\* Seeded fault: the returned message is never pushed.
PushOptDropped(q, r) == q

\* messages.push(message) for an Option: nothing is pushed for None.
PushOpt(q, r) == IF r = None THEN q ELSE Append(q, r)

\* Seeded fault: the statuses are paired from the back.
ZipStatusesReversed(es, ss) ==
    [i \in 1..(IF Len(es) < Len(ss) THEN Len(es) ELSE Len(ss)) |->
        [event |-> es[i], status |-> ss[Len(ss) + 1 - i]]]

\* Iterator::zip: pairs up to the shorter of the two sequences.
Zip(es, ss) ==
    [i \in 1..(IF Len(es) < Len(ss) THEN Len(es) ELSE Len(ss)) |->
        [event |-> es[i], status |-> ss[i]]]

\* Seeded fault: pending messages do not hold the skip back.
IdleSkipIgnoresMessages(dpe, es, ms, ar) == ~dpe /\ es = <<>> /\ ~ar

\* Seeded fault: the skip is also held back while an update is still owed.
IdleSkipUnlessUpdateOwed(dpe, es, ms, ar) ==
    ~dpe /\ es = <<>> /\ ms = <<>> /\ ~ar /\ ~needs_update

\* The idle-skip test of MainEventsCleared.
IdleSkip(dpe, es, ms, ar) == ~dpe /\ es = <<>> /\ ms = <<>> /\ ~ar

\* Seeded fault: `=` for `|=`, which forgets an update owed from before.
NeedsUpdateOverwritten(nu, ms, ar) == ms # <<>> \/ ar

\* needs_update after event dispatch: `needs_update |= !messages.is_empty()
\* || settings.always_redraw`.
NeedsUpdateAfterDispatch(nu, ms, ar) == nu \/ ms # <<>> \/ ar

\* Seeded fault: only a zero width counts as degenerate.
PresentSkippedWidthOnly(rr, ar, size) ==
    \/ ~(rr \/ ar)
    \/ size.w = 0

\* The PresentRequest early returns.
PresentSkipped(rr, ar, size) ==
    \/ ~(rr \/ ar)
    \/ size.w = 0 \/ size.h = 0

\* ----------------------------------------------------------- subscriptions
\* Recipe::hash of ParameterUpdatesRecipe: the TypeId of the recipe type, the
\* same for every instance whatever receiver it holds.
ParameterUpdatesId(receiver) == <<"ParameterUpdates", 0>>

\* The identities an editor can give its own subscriptions.
EditorSubs == {<<"Editor", i>> : i \in 1..NumEditorSubs}

\* Seeded fault: the batch holds the editor's subscription only.
EditorDeclaredOnly(editor_ids) == editor_ids

\* The identities of Subscription::batch([from_recipe(ParameterUpdatesRecipe
\* {..}), editor.subscription(..)]) when the editor declares editor_ids.
WrapperDeclared(editor_ids) == {ParameterUpdatesId("receiver")} \cup editor_ids

\* runtime.track(recipes): the reconciliation of the sources alive with the
\* identities declared.  Identities not yet alive are started, sources whose
\* identity is no longer declared are cancelled, the others are left alone.
TrackerStarted(alive, declared)   == declared \ alive
TrackerCancelled(alive, declared) == alive \ declared
TrackerAlive(alive, declared) ==
    (alive \ TrackerCancelled(alive, declared)) \cup TrackerStarted(alive, declared)

\* The editor callbacks behind a slot.  Callback k returns None or
\* Some(message k); NoSource stands for a closure with no editor callback
\* behind it, which returns None, and AnySource for a callback of which
\* nothing is known.
NoSource  == 0
AnySource == NumMsgs + 1
Sources(on_frame, on_window_will_close) ==
    [on_frame |-> on_frame, on_window_will_close |-> on_window_will_close]

\* What a registered on_frame or on_window_will_close callback may return
\* when the message queue is q and the slot yields the messages of source.
CallbackReturnsOf(source, q) ==
    IF source = AnySource THEN CallbackReturns(q)
    ELSE IF source = NoSource THEN {None}
    ELSE CallbackReturns(q) \cap {None, source}

\* What editor.subscription can leave in a slot of the wrapper that holds a
\* closure afterwards: the closure the wrapper had put there (0), or a
\* callback of the editor's own.  An Application other than the wrapper is
\* not followed.
EditorCallbacks(is_wrapper, slots) ==
    [on_frame : IF is_wrapper /\ slots.on_frame THEN 0..NumMsgs ELSE {0},
     on_window_will_close :
         IF is_wrapper /\ slots.on_window_will_close THEN 0..NumMsgs ELSE {0}]

\* Whose messages one slot of the driver yields after
\* IcedEditorWrapperApplication::subscription.  The closure handed to the
\* editor calls the driver's current callback and unwraps its message
\* (into_editor_message), and the closure written back wraps it again
\* (Message::EditorMessage): left in place, it yields what the slot yielded
\* before.  A callback of the editor's own replaces it.  A slot the editor
\* emptied is not written back, and the driver keeps its callback.
WrapperYields(yielded, left, callback) ==
    IF left /\ callback # 0 THEN callback ELSE yielded

Producing(is_wrapper, yields, slots, callbacks) ==
    IF is_wrapper
      THEN Sources(WrapperYields(yields.on_frame, slots.on_frame, callbacks.on_frame),
                   WrapperYields(yields.on_window_will_close,
                                 slots.on_window_will_close,
                                 callbacks.on_window_will_close))
      ELSE yields

\* No call of intersects_triangle.
NoProbe ==
    [bounds |-> [x |-> 0, y |-> 0, width |-> 0, height |-> 0],
     point |-> [x |-> 0, y |-> 0], called |-> FALSE, result |-> FALSE]

\* A tree without a resize handle, and a pointer outside the window.
NoHandle == [present |-> FALSE]
NoCursor == [available |-> FALSE, x |-> 0, y |-> 0]

\* ------------------------------------------------------------ ResizeHandle
\* ResizeHandle::DEFAULT_SIZE and the min_width, min_height that
\* ResizeHandle::new sets, in logical pixels.
DEFAULT_SIZE == 20
min_width    == 400
min_height   == 300

\* Seeded fault: the lower limit is not applied.
MaxUnclamped(a, b) == a

Max(a, b) == IF a > b THEN a ELSE b

SizeOf(w, h) == [width |-> w, height |-> h]

\* layout.bounds() of the handle: a DEFAULT_SIZE square (the node layout()
\* returns) with its corner at the origin of the window.
HandleBounds ==
    [x |-> 0, y |-> 0, width |-> DEFAULT_SIZE, height |-> DEFAULT_SIZE]

\* Pointer positions: MaxDrag + 1 columns and two rows just inside the far
\* corner of HandleBounds, and one column outside it.
PointerXs ==
    {HandleBounds.x + HandleBounds.width - 1 - d : d \in 0..MaxDrag}
        \cup {HandleBounds.x + HandleBounds.width + 1}
PointerYs ==
    {HandleBounds.y + HandleBounds.height - 1 - d : d \in 0..1}

\* The sizes the editor's view() hands to ResizeHandle::new: the minimum
\* size, and widths just under and just over it.
CurrentSizes == {SizeOf(min_width + a, min_height) : a \in (0 - 1)..1}

\* bounds.contains(cursor_position)
Contains(bounds, point) ==
    /\ bounds.x <= point.x /\ point.x < bounds.x + bounds.width
    /\ bounds.y <= point.y /\ point.y < bounds.y + bounds.height

\* (self.on_resize)(size): the message the editor's closure makes of a size,
\* a different message for every size.
OnResize(size) == size.width * 1000 + size.height

\* State::default() under a handle built with current_size.
NewHandle(current_size) ==
    [present           |-> TRUE,
     bounds            |-> HandleBounds,
     current_size      |-> current_size,
     drag_active       |-> FALSE,
     start_size        |-> SizeOf(0, 0),
     last_cursor       |-> [x |-> 0, y |-> 0],
     accumulated_size  |-> SizeOf(0, 0),
     last_emitted_size |-> SizeOf(0, 0)]

\* Seeded fault: every move of a drag is reported.
EmitsAlways(accumulated_size, last_emitted_size) == TRUE

\* `if state.accumulated_size != state.last_emitted_size`
Emits(accumulated_size, last_emitted_size) ==
    accumulated_size # last_emitted_size

\* Seeded fault: a press starts a drag wherever the cursor is.
HandlePressedAnywhere(h, cur) ==
    IF cur.available
      THEN [handle |-> [h EXCEPT !.drag_active = TRUE,
                                 !.start_size = h.current_size,
                                 !.last_cursor = [x |-> cur.x, y |-> cur.y],
                                 !.accumulated_size = h.current_size,
                                 !.last_emitted_size = h.current_size],
            published |-> <<>>]
      ELSE [handle |-> h, published |-> <<>>]

\* The ButtonPressed(Left) arm of ResizeHandle::update.
HandlePressed(h, cur) ==
    IF cur.available /\ Contains(h.bounds, cur)
      THEN [handle |-> [h EXCEPT !.drag_active = TRUE,
                                 !.start_size = h.current_size,
                                 !.last_cursor = [x |-> cur.x, y |-> cur.y],
                                 !.accumulated_size = h.current_size,
                                 !.last_emitted_size = h.current_size],
            published |-> <<>>]
      ELSE [handle |-> h, published |-> <<>>]

\* The ButtonReleased(Left) arm.
HandleReleased(h, cur) ==
    [handle |-> [h EXCEPT !.drag_active = FALSE], published |-> <<>>]

\* Seeded fault: the size published is not recorded as the last one emitted.
HandleMovedForgetsEmitted(h, cur) ==
    IF h.drag_active /\ cur.available
      THEN LET delta == [x |-> cur.x - h.last_cursor.x, y |-> cur.y - h.last_cursor.y]
               acc == SizeOf(Max(h.accumulated_size.width + delta.x, min_width),
                             Max(h.accumulated_size.height + delta.y, min_height))
               moved == [h EXCEPT !.last_cursor = [x |-> cur.x, y |-> cur.y],
                                  !.accumulated_size = acc]
           IN  IF Emits(acc, h.last_emitted_size)
                 THEN [handle |-> moved,
                       published |-> <<OnResize(acc)>>]
                 ELSE [handle |-> moved, published |-> <<>>]
      ELSE [handle |-> h, published |-> <<>>]

\* The CursorMoved arm: the delta from the last cursor position is added to
\* the accumulated size, each side clamped from below, and the size is
\* published when it differs from the one published last.
HandleMoved(h, cur) ==
    IF h.drag_active /\ cur.available
      THEN LET delta == [x |-> cur.x - h.last_cursor.x, y |-> cur.y - h.last_cursor.y]
               acc == SizeOf(Max(h.accumulated_size.width + delta.x, min_width),
                             Max(h.accumulated_size.height + delta.y, min_height))
               moved == [h EXCEPT !.last_cursor = [x |-> cur.x, y |-> cur.y],
                                  !.accumulated_size = acc]
           IN  IF Emits(acc, h.last_emitted_size)
                 THEN [handle |-> [moved EXCEPT !.last_emitted_size = acc],
                       published |-> <<OnResize(acc)>>]
                 ELSE [handle |-> moved, published |-> <<>>]
      ELSE [handle |-> h, published |-> <<>>]

\* ResizeHandle::update for one event, the cursor being cur: the widget state
\* it leaves and the messages it hands to shell.publish.
HandleUpdate(h, event, cur) ==
    CASE event.kind = "ButtonPressed"  -> HandlePressed(h, cur)
      [] event.kind = "ButtonReleased" -> HandleReleased(h, cur)
      [] event.kind = "CursorMoved"    -> HandleMoved(h, cur)
      [] OTHER -> [handle |-> h, published |-> <<>>]

\* user_interface.update(&events, state.cursor(), ..) over a tree that is the
\* handle: every event of the batch goes to ResizeHandle::update in order,
\* all with the one cursor the call was given.  calls records each call of
\* ResizeHandle::update: the event, the widget before and after, and what
\* was published.
RECURSIVE HandleUpdates(_, _, _)
HandleUpdates(h, es, cur) ==
    IF es = <<>>
      THEN [handle |-> h, published |-> <<>>, calls |-> <<>>]
      ELSE LET one  == HandleUpdate(h, Head(es), cur)
               rest == HandleUpdates(one.handle, Tail(es), cur)
           IN  [handle    |-> rest.handle,
                published |-> one.published \o rest.published,
                calls     |-> <<Entry("handle_update",
                                      [event     |-> Head(es),
                                       before    |-> h,
                                       after     |-> one.handle,
                                       published |-> one.published])>>
                                \o rest.calls]

\* The parameter-update channel with its sender alive and nothing sent, and
\* the stream of ParameterUpdatesRecipe not yet polled.
NoUpdates ==
    [channel |-> 0, connected |-> TRUE, stream |-> "ready", sent |-> 0, emitted |-> 0]

\* ----------------------------------------------------------------- startup
\* The state run() and the head of run_instance leave, for an editor that can
\* declare the subscription identities in sources and declares ids at first.
Boot(sources, slots, ids, tree_handle) ==
    /\ pc = "wait"
    /\ handler = "none"
    /\ ret = "frame"
    /\ events = <<>>
    /\ messages = <<>>
    /\ draining = <<>>
    /\ pairs = <<>>
    /\ redraw_requested = TRUE
    /\ needs_update = TRUE
    /\ did_process_event = FALSE
    /\ ui = "built"
    /\ state_version = 0
    /\ viewport_version = state_version
    /\ log = <<>>
    /\ dispatched = NoDispatch
    /\ broadcasts = <<>>
    /\ relayouts = 0
    /\ ticked = FALSE
    /\ editor_sources = sources
    /\ editor_slots = slots
    /\ running = TrackerAlive({}, WrapperDeclared(ids))
    /\ param_updates = NoUpdates
    /\ handle = tree_handle
    /\ cursor = NoCursor

Init ==
    /\ Boot({}, SubsValues, {}, NoHandle)
    /\ wrapped = FALSE
    /\ producing = Sources(AnySource, AnySource)
    /\ probe = NoProbe
    /\ always_redraw \in BOOLEAN
    /\ window_subs \in SubsValues
    /\ physical_size \in [w : Dims, h : Dims]

\* Start-up of a window of fixed, non-degenerate size whose editor can declare
\* any of EditorSubs.
InitSubs ==
    /\ \E ids \in SUBSET EditorSubs : Boot(EditorSubs, SubsValues, ids, NoHandle)
    /\ wrapped = FALSE
    /\ producing = Sources(AnySource, AnySource)
    /\ probe = NoProbe
    /\ always_redraw = FALSE
    /\ window_subs \in SubsValues
    /\ physical_size = [w |-> MaxDim, h |-> MaxDim]

\* ------------------------------------------------- update cycle (shared)
\* `let cache = ManuallyDrop::into_inner(user_interface).into_cache();` followed
\* by the call of update(), whose first statement is messages.drain(..).
\* ms is the message queue at that point.
RetireAndDrain(ms, lg, caller) ==
    /\ ui' = "cached"
    /\ draining' = ms
    /\ messages' = <<>>
    /\ ret' = caller
    /\ log' = lg \o <<Entry("into_cache", None), Entry("drain", ms)>>
    /\ pc' = "cycle_update"

\* Seeded fault: the messages are taken from the back (a pop loop).
DrainNextFromBack(q) == q[Len(q)]

\* The element messages.drain(..) yields next: the front of what is left.
DrainNext(q) == Head(q)

\* One iteration of `for message in messages.drain(..)`: application.update.
CycleUpdateMessage ==
    /\ pc = "cycle_update"
    /\ draining # <<>>
    /\ log' = Append(log, Entry("update", DrainNext(draining)))
    /\ draining' = Tail(draining)
    /\ UNCHANGED <<pc, handler, ret, events, messages, pairs, redraw_requested,
                   needs_update, did_process_event, always_redraw, window_subs, ui,
                   viewport_version, state_version, physical_size, relayouts, dispatched, broadcasts, ticked, running, editor_sources, editor_slots, wrapped, producing, param_updates,
                   probe, handle, cursor>>

\* Seeded fault: a slot the editor emptied is emptied in the driver too.
WrapperSubscriptionClears(ws, slots) ==
    [on_frame             |-> slots.on_frame,
     on_window_will_close |-> slots.on_window_will_close,
     on_resize            |-> ws.on_resize]

\* IcedEditorWrapperApplication::subscription, as far as the callback slots
\* go.  The editor is handed slots of its own: on_frame and
\* on_window_will_close always hold a closure, on_resize holds one when the
\* driver's slot does.  slots is what editor.subscription leaves in them.
\* Afterwards the driver's on_frame and on_window_will_close are replaced when
\* the editor's slot holds a closure, and left alone otherwise; nothing is
\* written to the driver's on_resize.
WrapperSubscription(ws, slots) ==
    [on_frame             |-> IF slots.on_frame THEN TRUE ELSE ws.on_frame,
     on_window_will_close |-> IF slots.on_window_will_close THEN TRUE
                                ELSE ws.on_window_will_close,
     on_resize            |-> ws.on_resize]

\* application.subscription(&mut window_subs): the driver's slots afterwards.
\* An Application other than the wrapper is handed the driver's slots
\* themselves and leaves in them what it likes.
Subscription(is_wrapper, ws, slots) ==
    IF is_wrapper THEN WrapperSubscription(ws, slots) ELSE slots

\* application.subscription(window_subs) and runtime.track: the application
\* is handed the callback slots mutably and may register or clear any of them.
\* subscription takes &self, so what it registers is decided by the
\* application state, which only application.update changes: a cycle that
\* delivered no message registers and declares what the previous call did.
\* The declared recipes are handed to runtime.track.
CycleTrack ==
    /\ pc = "cycle_update"
    /\ draining = <<>>
    /\ \E slots \in editor_slots, ids \in SUBSET editor_sources :
       \E callbacks \in EditorCallbacks(wrapped, slots) :
         LET declared == WrapperDeclared(ids)
             ws == Subscription(wrapped, window_subs, slots)
             yields == Producing(wrapped, producing, slots, callbacks)
         IN  /\ (\A i \in 1..Len(log) : log[i][1] # "update")
                    => (ws = window_subs /\ yields = producing /\ declared = running)
             /\ window_subs' = ws
             /\ producing' = yields
             /\ running' = TrackerAlive(running, declared)
             /\ log' = Append(log, Entry("track",
                          [slots     |-> slots,
                           callbacks |-> callbacks,
                           before    |-> running,
                           declared  |-> declared,
                           started   |-> TrackerStarted(running, declared),
                           cancelled |-> TrackerCancelled(running, declared)]))
    /\ pc' = "cycle_sync"
    /\ UNCHANGED <<handler, ret, events, messages, draining, pairs, redraw_requested,
                   needs_update, did_process_event, always_redraw, ui,
                   viewport_version, state_version, physical_size, relayouts, dispatched,
                   broadcasts, ticked, editor_sources, editor_slots, wrapped, param_updates,
                   probe, handle, cursor>>

\* state.synchronize(&application)
CycleSynchronize ==
    /\ pc = "cycle_sync"
    /\ log' = Append(log, Entry("synchronize", None))
    /\ pc' = "cycle_build"
    /\ UNCHANGED <<handler, ret, events, messages, draining, pairs, redraw_requested,
                   needs_update, did_process_event, always_redraw, window_subs, ui,
                   viewport_version, state_version, physical_size, relayouts, dispatched, broadcasts, ticked, running, editor_sources, editor_slots, wrapped, producing, param_updates,
                   probe, handle, cursor>>

\* The sizes application.view() can hand to ResizeHandle::new when the tree is
\* rebuilt.  view takes &self, so the size is decided by the application
\* state, which only application.update changes: a cycle that delivered no
\* message builds the handle with the size it had.  The widget State is kept
\* by the tree across the rebuild.
ViewSizes(h, lg) ==
    IF ~h.present THEN {SizeOf(0, 0)}
    ELSE IF \A i \in 1..Len(lg) : lg[i][1] # "update" THEN {h.current_size}
    ELSE CurrentSizes

\* Seeded fault: the cycle goes back to its caller without rebuilding the tree.
CycleBuildLeavesCached ==
    /\ pc = "cycle_build"
    /\ pc' = IF ret = "frame" THEN "frame_draw" ELSE "loop_exit"
    /\ UNCHANGED <<handler, ret, events, messages, draining, pairs, redraw_requested,
                   needs_update, did_process_event, always_redraw, window_subs, ui,
                   viewport_version, state_version, physical_size, log, relayouts,
                   dispatched, broadcasts, ticked, running, editor_sources, editor_slots, wrapped, producing,
                   param_updates, probe, handle, cursor>>

\* user_interface = build_user_interface(..); then back to the caller: the
\* draw of MainEventsCleared, or the break of WillClose.
CycleBuild ==
    /\ pc = "cycle_build"
    /\ log' = Append(log, Entry("build", None))
    /\ ui' = "built"
    /\ \E size \in ViewSizes(handle, log) :
         handle' = IF handle.present THEN [handle EXCEPT !.current_size = size]
                                     ELSE handle
    /\ pc' = IF ret = "frame" THEN "frame_draw" ELSE "loop_exit"
    /\ UNCHANGED <<handler, ret, events, messages, draining, pairs, redraw_requested,
                   needs_update, did_process_event, always_redraw, window_subs,
                   viewport_version, state_version, physical_size, relayouts, dispatched, broadcasts, ticked, running, editor_sources, editor_slots, wrapped, producing, param_updates,
                   probe, cursor>>


\* ------------------------------------------- RuntimeEvent::MainEventsCleared
\* Seeded fault: the idle-skip test comes first, and a skipped tick does not
\* consult the frame callback.
MainEventsClearedSkipsFirst ==
    /\ pc = "wait"
    /\ handler' = "MainEventsCleared"
    /\ \E r \in (IF window_subs.on_frame
                       /\ ~IdleSkip(did_process_event, events, messages, always_redraw)
                    THEN CallbackReturnsOf(producing.on_frame, messages) ELSE {None}) :
         LET ms == PushOpt(messages, r)
             lg == IF window_subs.on_frame
                        /\ ~IdleSkip(did_process_event, events, messages, always_redraw)
                     THEN <<Entry("on_frame", r)>> ELSE <<>>
         IN  /\ messages' = ms
             /\ log' = lg
             /\ IF IdleSkip(did_process_event, events, ms, always_redraw)
                  THEN pc' = "done" /\ UNCHANGED did_process_event
                  ELSE pc' = "frame_dispatch" /\ did_process_event' = FALSE
    /\ UNCHANGED <<ret, events, draining, pairs, redraw_requested, needs_update,
                   always_redraw, window_subs, ui, viewport_version, state_version,
                   physical_size, relayouts, dispatched, broadcasts, ticked, running, editor_sources, editor_slots, wrapped, producing, param_updates,
                   probe, handle, cursor>>

\* Seeded fault: `did_process_event = false` is missing.
MainEventsClearedKeepsFlag ==
    /\ pc = "wait"
    /\ handler' = "MainEventsCleared"
    /\ \E r \in (IF window_subs.on_frame
                    THEN CallbackReturnsOf(producing.on_frame, messages) ELSE {None}) :
         LET ms == PushOpt(messages, r)
             lg == IF window_subs.on_frame THEN <<Entry("on_frame", r)>> ELSE <<>>
         IN  /\ messages' = ms
             /\ log' = lg
             /\ IF IdleSkip(did_process_event, events, ms, always_redraw)
                  THEN pc' = "done" /\ UNCHANGED did_process_event
                  ELSE pc' = "frame_dispatch" /\ UNCHANGED did_process_event
    /\ UNCHANGED <<ret, events, draining, pairs, redraw_requested, needs_update,
                   always_redraw, window_subs, ui, viewport_version, state_version,
                   physical_size, relayouts, dispatched, broadcasts, ticked, running, editor_sources, editor_slots, wrapped, producing, param_updates,
                   probe, handle, cursor>>

\* The frame callback and the idle-skip test (lines 369-382).
MainEventsCleared ==
    /\ pc = "wait"
    /\ handler' = "MainEventsCleared"
    /\ \E r \in (IF window_subs.on_frame
                    THEN CallbackReturnsOf(producing.on_frame, messages) ELSE {None}) :
         LET ms == PushOpt(messages, r)
             lg == IF window_subs.on_frame THEN <<Entry("on_frame", r)>> ELSE <<>>
         IN  /\ messages' = ms
             /\ log' = lg
             /\ IF IdleSkip(did_process_event, events, ms, always_redraw)
                  THEN pc' = "done" /\ UNCHANGED did_process_event
                  ELSE pc' = "frame_dispatch" /\ did_process_event' = FALSE
    /\ UNCHANGED <<ret, events, draining, pairs, redraw_requested, needs_update,
                   always_redraw, window_subs, ui, viewport_version, state_version,
                   physical_size, relayouts, dispatched, broadcasts, ticked, running, editor_sources, editor_slots, wrapped, producing, param_updates,
                   probe, handle, cursor>>

\* Seeded fault: the events are iterated without being removed.
DispatchLeavesQueue(es) == es

\* What events.drain(..) leaves in the event queue.
DispatchLeaves(es) == <<>>

\* What user_interface.update(&events, state.cursor(), ..) can come to when
\* the message queue is ms.  A tree that is the resize handle leaves every
\* event Ignored, is never outdated and publishes what the handle publishes;
\* of any other tree nothing is known.
TreeUpdate(h, es, cur, ms) ==
    IF h.present
      THEN LET r == HandleUpdates(h, es, cur)
           IN  {[statuses  |-> [i \in 1..Len(es) |-> "Ignored"],
                 published |-> r.published,
                 outdated  |-> FALSE,
                 handle    |-> r.handle,
                 calls     |-> r.calls]}
      ELSE [statuses  : [1..Len(es) -> Statuses],
            published : SeqsUpTo(Messages, Min(MaxPublished, MaxMessages - Len(ms))),
            outdated  : {FALSE, TRUE},
            handle    : {h},
            calls     : {<<>>}]

\* `if !events.is_empty()`: user_interface.update over the whole queue, which
\* returns one status per event, may publish messages and may report the tree
\* outdated; then events.drain(..).zip(statuses) (lines 384-396).
FrameDispatch ==
    /\ pc = "frame_dispatch"
    /\ IF events = <<>>
         THEN /\ pc' = "frame_check"
              /\ UNCHANGED <<events, messages, pairs, needs_update, log, dispatched, handle>>
         ELSE \E out \in TreeUpdate(handle, events, cursor, messages) :
                 /\ messages' = messages \o out.published
                 /\ needs_update' = (needs_update \/ out.outdated)
                 /\ pairs' = Zip(events, out.statuses)
                 /\ events' = DispatchLeaves(events)
                 /\ dispatched' = [events |-> events, statuses |-> out.statuses]
                 /\ handle' = out.handle
                 /\ log' = Append(log \o out.calls, Entry("ui_update",
                              [published |-> out.published, outdated |-> out.outdated]))
                 /\ pc' = "frame_pairs"
    /\ UNCHANGED <<handler, ret, draining, redraw_requested, did_process_event,
                   always_redraw, window_subs, ui, viewport_version, state_version,
                   physical_size, relayouts, broadcasts, ticked, running, editor_sources, editor_slots, wrapped, producing, param_updates,
                   probe, cursor>>

\* Seeded fault: the resize callback is invoked for every event of the batch.
FramePairAnyEvent ==
    /\ pc = "frame_pairs"
    /\ pairs # <<>>
    /\ LET p == Head(pairs)
           called == window_subs.on_resize
       IN  \E r \in (IF called THEN CallbackReturns(messages) ELSE {None}) :
             /\ messages' = PushOpt(messages, r)
             /\ log' = log
                   \o (IF called
                         THEN <<Entry("on_resize", [size |-> <<p.event.w, p.event.h>>, ret |-> r])>>
                         ELSE <<>>)
             /\ broadcasts' = Append(broadcasts, p)
    /\ pairs' = Tail(pairs)
    /\ pc' = IF Tail(pairs) = <<>> THEN "frame_check" ELSE "frame_pairs"
    /\ UNCHANGED <<handler, ret, events, draining, redraw_requested, needs_update,
                   did_process_event, always_redraw, window_subs, ui, viewport_version,
                   state_version, physical_size, relayouts, dispatched, ticked, running, editor_sources, editor_slots, wrapped, producing, param_updates,
                   probe, handle, cursor>>

\* One iteration of the loop over the (event, status) pairs: the resize
\* callback for a Resized event, then runtime.broadcast (lines 396-414).
FramePair ==
    /\ pc = "frame_pairs"
    /\ pairs # <<>>
    /\ LET p == Head(pairs)
           called == p.event.kind = "Resized" /\ window_subs.on_resize
       IN  \E r \in (IF called THEN CallbackReturns(messages) ELSE {None}) :
             /\ messages' = PushOpt(messages, r)
             /\ log' = log
                   \o (IF called
                         THEN <<Entry("on_resize", [size |-> <<p.event.w, p.event.h>>, ret |-> r])>>
                         ELSE <<>>)
             /\ broadcasts' = Append(broadcasts, p)
    /\ pairs' = Tail(pairs)
    /\ pc' = IF Tail(pairs) = <<>> THEN "frame_check" ELSE "frame_pairs"
    /\ UNCHANGED <<handler, ret, events, draining, redraw_requested, needs_update,
                   did_process_event, always_redraw, window_subs, ui, viewport_version,
                   state_version, physical_size, relayouts, dispatched, ticked, running, editor_sources, editor_slots, wrapped, producing, param_updates,
                   probe, handle, cursor>>

\* Seeded fault: `needs_update = false` is missing.
FrameCheckKeepsNeedsUpdate ==
    /\ pc = "frame_check"
    /\ LET nu == NeedsUpdateAfterDispatch(needs_update, messages, always_redraw)
       IN  IF nu
             THEN /\ needs_update' = nu
                  /\ RetireAndDrain(messages, log, "frame")
             ELSE /\ needs_update' = nu
                  /\ pc' = "frame_draw"
                  /\ UNCHANGED <<messages, draining, ret, ui, log>>
    /\ dispatched' = NoDispatch
    /\ broadcasts' = <<>>
    /\ ticked' = TRUE
    /\ UNCHANGED <<handler, events, pairs, redraw_requested, did_process_event,
                   always_redraw, window_subs, viewport_version, state_version,
                   physical_size, relayouts, running, editor_sources, editor_slots, wrapped, producing, param_updates,
                   probe, handle, cursor>>

\* `needs_update |= ..; if needs_update { needs_update = false; into_cache;
\* update(..) .. }` (lines 419-433).
FrameCheck ==
    /\ pc = "frame_check"
    /\ LET nu == NeedsUpdateAfterDispatch(needs_update, messages, always_redraw)
       IN  IF nu
             THEN /\ needs_update' = FALSE
                  /\ RetireAndDrain(messages, log, "frame")
             ELSE /\ needs_update' = nu
                  /\ pc' = "frame_draw"
                  /\ UNCHANGED <<messages, draining, ret, ui, log>>
    /\ dispatched' = NoDispatch
    /\ broadcasts' = <<>>
    /\ ticked' = TRUE
    /\ UNCHANGED <<handler, events, pairs, redraw_requested, did_process_event,
                   always_redraw, window_subs, viewport_version, state_version,
                   physical_size, relayouts, running, editor_sources, editor_slots, wrapped, producing, param_updates,
                   probe, handle, cursor>>

\* user_interface.draw(..); redraw_requested = true (lines 453-463).
FrameDraw ==
    /\ pc = "frame_draw"
    /\ log' = Append(log, Entry("draw", None))
    /\ redraw_requested' = TRUE
    /\ pc' = "done"
    /\ UNCHANGED <<handler, ret, events, messages, draining, pairs, needs_update,
                   did_process_event, always_redraw, window_subs, ui, viewport_version,
                   state_version, physical_size, relayouts, dispatched, broadcasts, ticked, running, editor_sources, editor_slots, wrapped, producing, param_updates,
                   probe, handle, cursor>>


\* ------------------------------------------------- RuntimeEvent::UserEvent
\* A widget operation is given by the number of Outcome::Chain links it still
\* has; operation.finish() yields the next link or the terminal outcome.
Operations == [links : 0..MaxChain, final : {"None", "Some"}]

Finish(op) ==
    IF op.links > 0 THEN [outcome |-> "Chain", next |-> [op EXCEPT !.links = @ - 1]]
                    ELSE [outcome |-> op.final, next |-> op]

\* Seeded fault: the Chain arm does not hand the next operation over.
OperateOnce(op, lg) == Append(lg, Entry("operate", op.links))

\* `while let Some(operation) = current_operation.take()`: the calls of
\* interface.operate made for the operation op, appended to lg.
RECURSIVE OperateLoop(_, _)
OperateLoop(op, lg) ==
    LET lg1 == Append(lg, Entry("operate", op.links))
        f   == Finish(op)
    IN  IF f.outcome = "Chain" THEN OperateLoop(f.next, lg1) ELSE lg1

NoOperation == [links |-> 0, final |-> "None"]

Actions ==
    {[tag |-> "Output", message |-> m, op |-> NoOperation] : m \in Messages}
        \cup {[tag |-> "Widget", message |-> None, op |-> o] : o \in Operations}
        \cup {[tag |-> t, message |-> None, op |-> NoOperation] :
                 t \in {"Clipboard", "Window", "System", "LoadFont", "Exit", "Reload"}}

\* What a request handed to the window queue may return.
QueueResults == {"Ok", "Err"}

\* Seeded fault: the result of close_window is unwrapped instead of dropped.
AfterActionCloseUnwrapped(tag, queue_result) ==
    IF tag = "Reload" \/ (tag = "Exit" /\ queue_result = "Err") THEN "aborted" ELSE "done"

\* Seeded fault: the Reload arm is empty.
AfterActionReloadIgnored(tag, queue_result) == "done"

\* Where run_action leaves the loop: `Action::Reload => todo!()` panics, every
\* other arm returns, `let _ = window_queue.close_window()` dropping the
\* result of the request.
AfterAction(tag, queue_result) == IF tag = "Reload" THEN "aborted" ELSE "done"

\* run_action (lines 677-759); queue_result is what window_queue.close_window
\* returns to the Exit arm.
RunAction(action, queue_result) ==
    /\ messages' = IF action.tag = "Output" THEN Append(messages, action.message)
                                             ELSE messages
    /\ log' = <<Entry("run_action", action.tag)>> \o
              (CASE action.tag = "Widget"   -> OperateLoop(action.op, <<>>)
                 [] action.tag = "Window"   -> <<Entry("window_queue", None)>>
                 [] action.tag = "Exit"     -> <<Entry("close_window", queue_result)>>
                 [] action.tag = "Clipboard" -> <<Entry("clipboard", None)>>
                 [] action.tag = "LoadFont" -> <<Entry("load_font", None)>>
                 [] action.tag = "Reload"   -> <<Entry("todo", None)>>
                 [] OTHER                   -> <<>>)
    /\ pc' = AfterAction(action.tag, queue_result)

UserEvent ==
    /\ pc = "wait"
    /\ handler' = "UserEvent"
    /\ \E action \in Actions, queue_result \in QueueResults :
         /\ action.tag = "Output" => Len(messages) < MaxMessages
         /\ action.tag # "Exit" => queue_result = "Ok"
         /\ RunAction(action, queue_result)
    /\ UNCHANGED <<ret, events, draining, pairs, redraw_requested, needs_update,
                   did_process_event, always_redraw, window_subs, ui, viewport_version,
                   state_version, physical_size, relayouts, dispatched, broadcasts, ticked,
                   running, editor_sources, editor_slots, wrapped, producing, param_updates, probe, handle, cursor>>

\* ---------------------------------------------- RuntimeEvent::RedrawRequested
\* Seeded fault: the presented version is not recorded.
PresentedNotRecorded(current_viewport_version) == viewport_version

\* `viewport_version = current_viewport_version;` after the relayout.
PresentedAfterRelayout(current_viewport_version) == current_viewport_version

\* Seeded fault: every present error panics.
PresentFatalAnyError(result) == result # "Ok"

\* The present error that panics.
PresentFatal(result) == result = "OutOfMemory"

\* The early returns, and the relayout / draw / configure_surface done when
\* the viewport version changed (lines 482-522).
RedrawRequested ==
    /\ pc = "wait"
    /\ handler' = "RedrawRequested"
    /\ IF PresentSkipped(redraw_requested, always_redraw, physical_size)
         THEN /\ pc' = "done"
              /\ log' = <<>>
              /\ UNCHANGED <<viewport_version, relayouts>>
         ELSE /\ pc' = "present"
              /\ IF viewport_version # state_version
                   THEN /\ log' = <<Entry("relayout", None), Entry("draw", None),
                                    Entry("configure_surface", <<physical_size.w, physical_size.h>>)>>
                        /\ viewport_version' = PresentedAfterRelayout(state_version)
                        /\ relayouts' = relayouts + 1
                   ELSE /\ log' = <<>>
                        /\ UNCHANGED <<viewport_version, relayouts>>
    /\ UNCHANGED <<ret, events, messages, draining, pairs, redraw_requested,
                   needs_update, did_process_event, always_redraw, window_subs, ui,
                   state_version, physical_size, dispatched, broadcasts, ticked, running, editor_sources, editor_slots, wrapped, producing, param_updates,
                   probe, handle, cursor>>

\* Seeded fault: a successful present clears redraw_requested.
PresentClearsRequest ==
    /\ pc = "present"
    /\ \E result \in PresentResults :
         /\ log' = Append(log, Entry("present", result))
         /\ CASE result = "Ok" ->
                   pc' = "done" /\ redraw_requested' = FALSE
              [] PresentFatal(result) ->
                   pc' = "aborted" /\ UNCHANGED redraw_requested
              [] OTHER ->
                   pc' = "done" /\ redraw_requested' = TRUE
    /\ UNCHANGED <<handler, ret, events, messages, draining, pairs, needs_update,
                   did_process_event, always_redraw, window_subs, ui, viewport_version,
                   state_version, physical_size, relayouts, dispatched, broadcasts, ticked, running, editor_sources, editor_slots, wrapped, producing, param_updates,
                   probe, handle, cursor>>

\* compositor.present(..) and the match on its result (lines 524-548).
Present ==
    /\ pc = "present"
    /\ \E result \in PresentResults :
         /\ log' = Append(log, Entry("present", result))
         /\ CASE result = "Ok" ->
                   pc' = "done" /\ UNCHANGED redraw_requested
              [] PresentFatal(result) ->
                   pc' = "aborted" /\ UNCHANGED redraw_requested
              [] OTHER ->
                   pc' = "done" /\ redraw_requested' = TRUE
    /\ UNCHANGED <<handler, ret, events, messages, draining, pairs, needs_update,
                   did_process_event, always_redraw, window_subs, ui, viewport_version,
                   state_version, physical_size, relayouts, dispatched, broadcasts, ticked, running, editor_sources, editor_slots, wrapped, producing, param_updates,
                   probe, handle, cursor>>


\* ------------------------------------------------- RuntimeEvent::Baseview
\* state.update(&event): a host resize sets the physical size and bumps the
\* viewport version when the physical geometry changes.
StateUpdate(event) ==
    /\ IF event.kind = "Resized" /\ [w |-> event.w, h |-> event.h] # physical_size
         THEN /\ physical_size' = [w |-> event.w, h |-> event.h]
              /\ state_version' = state_version + 1
              /\ relayouts' = 0
         ELSE UNCHANGED <<physical_size, state_version, relayouts>>
    /\ IF event.kind = "CursorMoved"
         THEN cursor' = [available |-> TRUE, x |-> event.w, y |-> event.h]
         ELSE UNCHANGED cursor

\* conversion::baseview_to_iced_events: the normalized events a host event is
\* translated to; a non-modifier key is dropped when such keys are ignored.
Translate(event, ignore_non_modifier_keys) ==
    CASE event.kind = "Resized" -> <<ResizedEvent(event.w, event.h)>>
      [] event.kind = "Mouse"   -> <<MouseEvent>>
      [] event.kind = "ButtonPressed"  -> <<ButtonPressedEvent>>
      [] event.kind = "ButtonReleased" -> <<ButtonReleasedEvent>>
      [] event.kind = "CursorMoved"    -> <<CursorMovedEvent>>
      [] OTHER -> IF ignore_non_modifier_keys THEN <<>> ELSE <<KeyEvent>>

\* The call of baseview_to_iced_events for a host event that came with the
\* acknowledgement flag do_send_status: how many normalized events it appended.
HostEventEntry(event, ignore_non_modifier_keys, do_send_status) ==
    <<Entry("baseview_to_iced_events",
            [appended |-> Len(Translate(event, ignore_non_modifier_keys)),
             do_send_status |-> do_send_status])>>

\* The host events that reach the window: those of the pointer when the tree
\* holds the resize handle, and the resizes of the host.
PointerHostEvents ==
    {[kind |-> "ButtonPressed", w |-> 0, h |-> 0],
     [kind |-> "ButtonReleased", w |-> 0, h |-> 0]}
        \cup {[kind |-> "CursorMoved", w |-> x, h |-> y] : x \in PointerXs, y \in PointerYs}
HostInputs(h) ==
    IF h.present
      THEN PointerHostEvents \cup {e \in HostEvents : e.kind = "Resized"}
      ELSE HostEvents

\* Lines 550-572.
Baseview ==
    /\ pc = "wait"
    /\ handler' = "Baseview"
    /\ \E event \in HostInputs(handle), do_send_status \in BOOLEAN, ignore \in BOOLEAN :
         LET es == events \o Translate(event, ignore)
         IN  /\ Len(es) <= MaxEvents
             /\ (event.kind = "Resized" /\ [w |-> event.w, h |-> event.h] # physical_size)
                    => state_version < MaxVersion
             /\ StateUpdate(event)
             /\ events' = es
             /\ IF es = <<>>
                  THEN /\ log' = HostEventEntry(event, ignore, do_send_status)
                                   \o (IF do_send_status
                                         THEN <<Entry("event_status", "Ignored")>> ELSE <<>>)
                       /\ UNCHANGED did_process_event
                  ELSE /\ log' = HostEventEntry(event, ignore, do_send_status)
                       /\ did_process_event' = TRUE
    /\ pc' = "done"
    /\ UNCHANGED <<ret, messages, draining, pairs, redraw_requested, needs_update,
                   always_redraw, window_subs, ui, viewport_version, dispatched,
                   broadcasts, ticked, running, editor_sources, editor_slots, wrapped, producing, param_updates,
                   probe, handle>>

\* ------------------------------------------------- RuntimeEvent::WillClose
\* Seeded fault: the cycle sits outside both tests.
CloseRunsCycleAlways(registered, r) == TRUE

\* Seeded fault: the cycle sits inside `if let Some(message) = message()`.
CloseRunsCycleOnlyForSome(registered, r) == registered /\ r # None

\* Whether WillClose runs its update cycle: the cycle sits inside
\* `if let Some(message) = &window_subs.on_window_will_close` and outside
\* `if let Some(message) = message()`; r is what the callback returned.
CloseRunsCycle(registered, r) == registered

\* Lines 573-602.
WillClose ==
    /\ pc = "wait"
    /\ handler' = "WillClose"
    /\ \E r \in (IF window_subs.on_window_will_close
                    THEN CallbackReturnsOf(producing.on_window_will_close, messages)
                    ELSE {None}) :
         LET lg == IF window_subs.on_window_will_close
                     THEN <<Entry("on_window_will_close", r)>> ELSE <<>>
         IN  IF CloseRunsCycle(window_subs.on_window_will_close, r)
               THEN RetireAndDrain(PushOpt(messages, r), lg, "close")
               ELSE /\ pc' = "loop_exit"
                    /\ log' = lg
                    /\ messages' = PushOpt(messages, r)
                    /\ UNCHANGED <<draining, ret, ui>>
    /\ UNCHANGED <<events, pairs, redraw_requested, needs_update, did_process_event,
                   always_redraw, window_subs, viewport_version, state_version,
                   physical_size, relayouts, dispatched, broadcasts, ticked, running, editor_sources, editor_slots, wrapped, producing, param_updates,
                   probe, handle, cursor>>

\* event_receiver yields None: the event channel has ended (lines 363-365).
ChannelClosed ==
    /\ pc = "wait"
    /\ handler' = "closed"
    /\ pc' = "loop_exit"
    /\ log' = <<>>
    /\ UNCHANGED <<ret, events, messages, draining, pairs, redraw_requested,
                   needs_update, did_process_event, always_redraw, window_subs, ui,
                   viewport_version, state_version, physical_size, relayouts, dispatched, broadcasts, ticked, running, editor_sources, editor_slots, wrapped, producing, param_updates,
                   probe, handle, cursor>>

\* The end of the loop body (or a `continue`): back to the top of the loop.
NextIteration ==
    /\ pc = "done"
    /\ pc' = "wait"
    /\ handler' = "none"
    /\ log' = <<>>
    /\ UNCHANGED <<ret, events, messages, draining, pairs, redraw_requested,
                   needs_update, did_process_event, always_redraw, window_subs, ui,
                   viewport_version, state_version, physical_size, relayouts, dispatched, broadcasts, ticked, running, editor_sources, editor_slots, wrapped, producing, param_updates,
                   probe, handle, cursor>>

\* Seeded fault: the `break` is a `continue`.
LoopExitContinues ==
    /\ pc = "loop_exit"
    /\ pc' = "wait"
    /\ UNCHANGED <<handler, ret, events, messages, draining, pairs, redraw_requested,
                   needs_update, did_process_event, always_redraw, window_subs, ui,
                   viewport_version, state_version, physical_size, log, relayouts,
                   dispatched, broadcasts, ticked, running, editor_sources,
                   editor_slots, wrapped, producing, param_updates, probe, handle, cursor>>

\* After the loop: the user interface is dropped (line 607).
LoopExit ==
    /\ pc = "loop_exit"
    /\ ui' = "dropped"
    /\ pc' = "terminated"
    /\ UNCHANGED <<handler, ret, events, messages, draining, pairs, redraw_requested,
                   needs_update, did_process_event, always_redraw, window_subs,
                   viewport_version, state_version, physical_size, log, relayouts, dispatched, broadcasts, ticked, running, editor_sources, editor_slots, wrapped, producing, param_updates,
                   probe, handle, cursor>>

\* ------------------------------------------- the parameter-update stream
\* crossbeam's Receiver::try_recv on a channel holding n messages.
TryRecv(n, connected) ==
    IF n > 0 THEN "Ok" ELSE IF connected THEN "Empty" ELSE "Disconnected"

\* What the closure handed to stream::unfold does with the result of
\* try_recv: Ok yields an item and keeps the stream going; Empty awaits
\* future::pending(), which never completes; Disconnected ends the stream.
StreamAfter(result) ==
    CASE result = "Ok"    -> "ready"
      [] result = "Empty" -> "parked"
      [] OTHER            -> "ended"

\* The executor polls the stream of ParameterUpdatesRecipe (wrapper.rs 29-44).
\* An item yielded becomes Message::ParameterUpdate.
StreamPoll ==
    /\ param_updates.stream = "ready"
    /\ LET result == TryRecv(param_updates.channel, param_updates.connected)
       IN  param_updates' =
             [param_updates EXCEPT
                !.stream  = StreamAfter(result),
                !.channel = IF result = "Ok" THEN @ - 1 ELSE @,
                !.emitted = IF result = "Ok" THEN @ + 1 ELSE @]
    /\ UNCHANGED <<driverVars, probe, handle, cursor>>

\* The plugin sends a ParameterUpdate on the channel.
SendParameterUpdate ==
    /\ param_updates.connected
    /\ param_updates.sent < MaxSent
    /\ param_updates' = [param_updates EXCEPT !.channel = @ + 1, !.sent = @ + 1]
    /\ UNCHANGED <<driverVars, probe, handle, cursor>>

\* The sending side of the channel is dropped.
SenderDropped ==
    /\ param_updates.connected
    /\ param_updates' = [param_updates EXCEPT !.connected = FALSE]
    /\ UNCHANGED <<driverVars, probe, handle, cursor>>

\* ------------------------------------------------------ intersects_triangle
\* Coordinates are whole numbers here; on them the f32 arithmetic of the code
\* is exact.
IntersectsTriangle(bounds, point) ==
    LET p1 == [x |-> bounds.x, y |-> bounds.y + bounds.height]
        p2 == [x |-> bounds.x + bounds.width, y |-> bounds.y + bounds.height]
        p3 == [x |-> bounds.x + bounds.width, y |-> bounds.y]
        v1 == [x |-> p2.x - p1.x, y |-> p2.y - p1.y]
        to_point1 == [x |-> point.x - p1.x, y |-> point.y - p1.y]
        cross1 == v1.x * to_point1.y - v1.y * to_point1.x
        v2 == [x |-> p3.x - p2.x, y |-> p3.y - p2.y]
        to_point2 == [x |-> point.x - p2.x, y |-> point.y - p2.y]
        cross2 == v2.x * to_point2.y - v2.y * to_point2.x
        v3 == [x |-> p1.x - p3.x, y |-> p1.y - p3.y]
        to_point3 == [x |-> point.x - p3.x, y |-> point.y - p3.y]
        cross3 == v3.x * to_point3.y - v3.y * to_point3.x
    IN  cross1 >= 0 /\ cross2 >= 0 /\ cross3 >= 0

\* The bounds and points the function is applied to.
ProbeBounds == [x : 0..1, y : 0..1, width : 1..MaxSide, height : 1..MaxSide]
ProbePoints == [x : 0..MaxCoord, y : 0..MaxCoord]

\* A call of intersects_triangle(bounds, point).
CallIntersectsTriangle ==
    /\ ~probe.called
    /\ probe' = [probe EXCEPT !.called = TRUE,
                              !.result = IntersectsTriangle(probe.bounds, probe.point)]
    /\ UNCHANGED <<driverVars, param_updates, handle, cursor>>

\* ------------------------------------------------------------ specification
Next ==
    \/ MainEventsCleared
    \/ FrameDispatch
    \/ FramePair
    \/ FrameCheck
    \/ FrameDraw
    \/ CycleUpdateMessage
    \/ CycleTrack
    \/ CycleSynchronize
    \/ CycleBuild
    \/ UserEvent
    \/ RedrawRequested
    \/ Present
    \/ Baseview
    \/ WillClose
    \/ ChannelClosed
    \/ NextIteration
    \/ LoopExit

Spec == Init /\ [][Next]_vars

\* The same loop for an editor whose declared subscriptions change.
SpecSubs == InitSubs /\ [][Next]_vars

\* The parameter-update channel and its stream on their own, the loop idle.
\* The executor polls a stream that is ready, hence the fairness.
InitParams ==
    /\ Boot({}, SubsValues, {}, NoHandle)
    /\ wrapped = FALSE
    /\ producing = Sources(AnySource, AnySource)
    /\ probe = NoProbe
    /\ always_redraw = FALSE
    /\ window_subs = [on_frame |-> FALSE, on_window_will_close |-> FALSE,
                      on_resize |-> FALSE]
    /\ physical_size = [w |-> MaxDim, h |-> MaxDim]

NextParams ==
    \/ StreamPoll
    \/ SendParameterUpdate
    \/ SenderDropped

SpecParams == InitParams /\ [][NextParams]_vars /\ WF_vars(StreamPoll)

\* A window whose tree is the resize handle, whose editor registers no
\* callback and declares no subscription of its own: pointer events and host
\* resizes come in, frames are ticked and presented.
NoSlots == [on_frame |-> FALSE, on_window_will_close |-> FALSE, on_resize |-> FALSE]

InitHandle ==
    /\ \E size \in CurrentSizes : Boot({}, {NoSlots}, {}, NewHandle(size))
    /\ wrapped = FALSE
    /\ producing = Sources(AnySource, AnySource)
    /\ probe = NoProbe
    /\ always_redraw = FALSE
    /\ window_subs = NoSlots
    /\ physical_size \in [w : Dims, h : Dims]

NextHandle ==
    \/ Baseview
    \/ MainEventsCleared
    \/ FrameDispatch
    \/ FramePair
    \/ FrameCheck
    \/ CycleUpdateMessage
    \/ CycleTrack
    \/ CycleSynchronize
    \/ CycleBuild
    \/ FrameDraw
    \/ RedrawRequested
    \/ Present
    \/ NextIteration

SpecHandle == InitHandle /\ [][NextHandle]_vars

\* The loop run for IcedEditorWrapperApplication: run() hands the wrapper the
\* default (empty) slots once before the loop starts.
InitWrapper ==
    /\ Boot({}, SubsValues, {}, NoHandle)
    /\ wrapped = TRUE
    /\ probe = NoProbe
    /\ always_redraw = FALSE
    /\ \E slots \in SubsValues :
         \E callbacks \in EditorCallbacks(TRUE, slots) :
           /\ window_subs = WrapperSubscription(NoSlots, slots)
           /\ producing = Producing(TRUE, Sources(NoSource, NoSource), slots, callbacks)
    /\ physical_size \in [w : Dims, h : Dims]

SpecWrapper == InitWrapper /\ [][Next]_vars

\* intersects_triangle applied once to every bounds and point, the loop idle.
InitTriangle ==
    /\ Boot({}, SubsValues, {}, NoHandle)
    /\ wrapped = FALSE
    /\ producing = Sources(AnySource, AnySource)
    /\ always_redraw = FALSE
    /\ window_subs = [on_frame |-> FALSE, on_window_will_close |-> FALSE,
                      on_resize |-> FALSE]
    /\ physical_size = [w |-> MaxDim, h |-> MaxDim]
    /\ probe \in [bounds : ProbeBounds, point : ProbePoints,
                   called : {FALSE}, result : {FALSE}]

NextTriangle == CallIntersectsTriangle

SpecTriangle == InitTriangle /\ [][NextTriangle]_vars


\* ================================================================== claims
\* Reading the log of the current handler.
HasOp(lg, op)  == \E i \in 1..Len(lg) : lg[i][1] = op
CountOp(lg, op) == Cardinality({i \in 1..Len(lg) : lg[i][1] = op})
ArgsOf(lg, op) ==
    LET sel == SelectSeq(lg, LAMBDA e : e[1] = op)
    IN  [i \in 1..Len(sel) |-> sel[i][2]]
Precedes(lg, a, b) ==
    \A i, j \in 1..Len(lg) : (lg[i][1] = a /\ lg[j][1] = b) => i < j

\* C1: idle skip.  A MainEventsCleared received with an empty event queue,
\* whose message queue is still empty after the frame callback was consulted
\* and with always_redraw off, ends the iteration at once: nothing is
\* dispatched to the tree, the user update is not called, the tree is neither
\* retired, rebuilt nor drawn, and the event queue, the message queue,
\* needs_update and redraw_requested are unchanged.
C1_IdleSkip ==
    [][ ( /\ pc = "wait"
          /\ handler' = "MainEventsCleared"
          /\ events = <<>>
          /\ messages' = <<>>
          /\ ~always_redraw )
        => ( /\ pc' = "done"
             /\ \A i \in 1..Len(log') : log'[i][1] = "on_frame"
             /\ UNCHANGED <<events, messages, needs_update, redraw_requested,
                            did_process_event, ui, draining, pairs, dispatched,
                            broadcasts, window_subs, viewport_version>> ) ]_vars

\* C1 witness: a skipped tick, taken although the start-up update is still
\* owed, after the frame callback was consulted and returned nothing.
C1_Witness ==
    /\ pc = "done"
    /\ handler = "MainEventsCleared"
    /\ events = <<>> /\ messages = <<>> /\ ~always_redraw
    /\ needs_update
    /\ Len(log) = 1 /\ log[1][1] = "on_frame" /\ log[1][2] = None


\* Whether the tree reported itself outdated in the dispatch of this handler.
TreeOutdated(lg) == \E i \in 1..Len(lg) : lg[i][1] = "ui_update" /\ lg[i][2].outdated

\* C2 as stated (refuted): a MainEventsCleared that is not skipped runs the
\* update cycle if and only if, after the event dispatch, the message queue
\* is non-empty or the tree reported itself outdated or always_redraw is on,
\* also at the first such tick after start-up.
C2_Original ==
    [][ pc = "frame_check"
        => ( (pc' = "cycle_update")
               <=> (messages # <<>> \/ TreeOutdated(log) \/ always_redraw) ) ]_vars

\* C2 amended: a MainEventsCleared that is not skipped runs the update cycle
\* (tree retired, user update over the queue, WindowState resynchronized,
\* tree rebuilt) if and only if, after the event dispatch, the message queue
\* is non-empty, or the tree reported itself outdated, or always_redraw is on,
\* or it is the first tick since start-up that is not skipped (needs_update
\* starts true).
C2_UpdateCycleIff ==
    /\ [][ pc = "frame_check"
           => ( (pc' = "cycle_update")
                  <=> (messages # <<>> \/ TreeOutdated(log) \/ always_redraw \/ ~ticked) ) ]_vars
    /\ []( (pc \in {"frame_draw", "done"} /\ handler = "MainEventsCleared"
              /\ HasOp(log, "into_cache"))
           => /\ CountOp(log, "into_cache") = 1
              /\ CountOp(log, "track") = 1
              /\ CountOp(log, "synchronize") = 1
              /\ CountOp(log, "build") = 1 )

\* C2 witness: a later tick that dispatched events and ran no update cycle.
C2_Witness ==
    /\ pc = "frame_draw"
    /\ ticked
    /\ HasOp(log, "ui_update")
    /\ ~HasOp(log, "into_cache")

\* C3: every message an update cycle takes from the message queue is passed
\* to the user update exactly once, in the order it was appended, and the
\* message queue is empty from the start of the cycle to the end of the
\* handler.
C3_FifoExactlyOnce ==
    HasOp(log, "drain")
    => /\ CountOp(log, "drain") = 1
       /\ Precedes(log, "drain", "update")
       /\ ArgsOf(log, "update") \o draining = ArgsOf(log, "drain")[1]
       /\ (pc # "cycle_update" => draining = <<>>)
       /\ messages = <<>>

\* C3 witness: a finished cycle that delivered two different messages.
C3_Witness ==
    /\ pc = "cycle_sync"
    /\ Len(ArgsOf(log, "update")) = 2
    /\ ArgsOf(log, "update")[1] # ArgsOf(log, "update")[2]

\* Whether the sequence a occurs in b as a contiguous run.
OccursIn(a, b) ==
    \E k \in 0..(Len(b) - Len(a)) : \A i \in 1..Len(a) : b[k + i] = a[i]

\* C4: in a MainEventsCleared iteration the dispatch of the queued events to
\* the tree comes before the update cycle, whose drained queue holds the
\* messages that dispatch published; the event queue is empty whenever the
\* user update is about to be called there; and in every update cycle
\* (MainEventsCleared or WillClose) the user update calls come before the
\* subscription tracking, that before the resynchronization, and that before
\* the rebuild.
C4_Ordering ==
    /\ Precedes(log, "ui_update", "into_cache")
    /\ \A i \in 1..Len(log) :
         (log[i][1] = "ui_update" /\ HasOp(log, "drain"))
            => OccursIn(log[i][2].published, ArgsOf(log, "drain")[1])
    /\ (pc = "cycle_update" /\ handler = "MainEventsCleared") => events = <<>>
    /\ Precedes(log, "into_cache", "update")
    /\ Precedes(log, "update", "track")
    /\ Precedes(log, "track", "synchronize")
    /\ Precedes(log, "synchronize", "build")
    /\ (pc = "cycle_build" => HasOp(log, "synchronize"))
    /\ (HasOp(log, "build") => HasOp(log, "synchronize") /\ HasOp(log, "into_cache"))

\* C4 witness: a tick whose dispatch published a message that the cycle of
\* the same tick has delivered, after an earlier pending one.
C4_Witness ==
    /\ pc = "done"
    /\ handler = "MainEventsCleared"
    /\ \E i \in 1..Len(log) : log[i][1] = "ui_update" /\ log[i][2].published # <<>>
    /\ Len(ArgsOf(log, "update")) = 2
    /\ HasOp(log, "build")

\* C5: when the loop over the dispatched events has ended, as many
\* Interaction events were broadcast as events were dispatched, the i-th
\* broadcast holds the i-th queued event and the i-th status the tree
\* returned, and while the loop runs the broadcasts made so far are that
\* prefix.
C5_BroadcastPairs ==
    /\ Len(broadcasts) + Len(pairs) = Len(dispatched.events)
    /\ Len(dispatched.statuses) = Len(dispatched.events)
    /\ \A i \in 1..Len(broadcasts) :
         /\ broadcasts[i].event = dispatched.events[i]
         /\ broadcasts[i].status = dispatched.statuses[i]
    /\ (pc = "frame_check" => pairs = <<>>)

\* C5 witness: two different events with different statuses, both broadcast.
C5_Witness ==
    /\ pc = "frame_check"
    /\ Len(broadcasts) = 2
    /\ broadcasts[1].event # broadcasts[2].event
    /\ broadcasts[1].status # broadcasts[2].status


\* The early returns of RedrawRequested, as the specification words them.
Degenerate == physical_size.w = 0 \/ physical_size.h = 0
PresentIsSkipped == (~redraw_requested /\ ~always_redraw) \/ Degenerate

\* C6: a RedrawRequested relayouts the tree and reconfigures the surface if
\* and only if it is not skipped and the viewport version of WindowState
\* differs from the version last presented; after a RedrawRequested that is
\* not skipped the presented version is the current one; while the version
\* does not change at most one relayout happens; and the presented version
\* never exceeds the version of WindowState.
C6_VersionGated ==
    /\ []( viewport_version <= state_version /\ relayouts <= 1 )
    /\ [][ (pc = "wait" /\ handler' = "RedrawRequested")
           => /\ HasOp(log', "relayout")
                   <=> (~PresentIsSkipped /\ viewport_version # state_version)
              /\ HasOp(log', "configure_surface") <=> HasOp(log', "relayout")
              /\ CountOp(log', "relayout") <= 1
              /\ ~PresentIsSkipped => viewport_version' = state_version' ]_vars

\* C6 witness: a second RedrawRequested at a version that was already
\* presented, which relayouts nothing.
C6_Witness ==
    /\ pc = "present"
    /\ state_version > 0
    /\ relayouts = 1
    /\ ~HasOp(log, "relayout")

\* C7: a RedrawRequested received while the physical size has zero width or
\* zero height does nothing: no relayout, no draw, no configure_surface, no
\* present, and the presented version and redraw_requested are unchanged.
C7_DegenerateNoOp ==
    [][ (pc = "wait" /\ handler' = "RedrawRequested" /\ Degenerate)
        => /\ pc' = "done"
           /\ log' = <<>>
           /\ UNCHANGED <<viewport_version, redraw_requested, ui, relayouts,
                          state_version, physical_size, events, messages,
                          needs_update, did_process_event, window_subs>> ]_vars

\* C7 witness: a skipped RedrawRequested with zero height only, which leaves
\* a version change pending.
C7_Witness ==
    /\ pc = "done"
    /\ handler = "RedrawRequested"
    /\ physical_size.h = 0 /\ physical_size.w # 0
    /\ viewport_version # state_version
    /\ log = <<>>

\* C8: when compositor.present fails, the process aborts if and only if the
\* error is OutOfMemory; after any other error the loop goes on to the next
\* iteration with redraw_requested true, and the failure changes nothing
\* else.
C8_PresentError ==
    [][ pc = "present"
        => LET result == log'[Len(log')][2]
           IN  /\ log'[Len(log')][1] = "present"
               /\ (pc' = "aborted") <=> (result = "OutOfMemory")
               /\ (result \notin {"Ok", "OutOfMemory"})
                    => /\ pc' = "done"
                       /\ redraw_requested'
                       /\ UNCHANGED <<handler, ret, events, messages, draining, pairs,
                                      needs_update, did_process_event, always_redraw,
                                      window_subs, ui, viewport_version, state_version,
                                      physical_size, relayouts, dispatched, broadcasts,
                                      ticked>> ]_vars

\* C8 witness: the loop back at its top after a present that failed with an
\* error other than OutOfMemory.
C8_Witness ==
    /\ pc = "done"
    /\ handler = "RedrawRequested"
    /\ Len(log) > 0
    /\ log[Len(log)][1] = "present" /\ log[Len(log)][2] = "Lost"
    /\ redraw_requested

\* Exactly one update cycle in the log, in order, delivering what it drained.
OneCycle(lg) ==
    /\ CountOp(lg, "into_cache") = 1
    /\ CountOp(lg, "drain") = 1
    /\ CountOp(lg, "track") = 1
    /\ CountOp(lg, "synchronize") = 1
    /\ CountOp(lg, "build") = 1
    /\ ArgsOf(lg, "update") = ArgsOf(lg, "drain")[1]
    /\ Precedes(lg, "into_cache", "update")
    /\ Precedes(lg, "update", "track")
    /\ Precedes(lg, "track", "synchronize")
    /\ Precedes(lg, "synchronize", "build")

\* What the close callback returned in this WillClose, when one was called.
CloseCallbackCalled(lg) == Len(lg) > 0 /\ lg[1][1] = "on_window_will_close"
LoopLeft == pc \in {"loop_exit", "terminated"}

\* C9: when WillClose finds a close callback that returns Some(msg), msg is
\* appended behind the pending messages and exactly one update cycle runs
\* before the loop is left: the user update consumes the pending messages
\* and then msg, WindowState is resynchronized and the tree is rebuilt.
C9_CloseWithMessage ==
    /\ [][ (pc = "wait" /\ handler' = "WillClose" /\ CloseCallbackCalled(log')
              /\ log'[1][2] # None)
           => /\ pc' = "cycle_update"
              /\ draining' = Append(messages, log'[1][2]) ]_vars
    /\ []( (LoopLeft /\ handler = "WillClose" /\ CloseCallbackCalled(log)
              /\ log[1][2] # None)
           => /\ OneCycle(log)
              /\ ArgsOf(log, "update")[Len(ArgsOf(log, "update"))] = log[1][2]
              /\ (pc = "loop_exit" => ui = "built") )
    /\ []( (handler = "WillClose" /\ CloseCallbackCalled(log) /\ ~HasOp(log, "build"))
           => ~LoopLeft )

\* C9 witness: the loop terminated after a close cycle that delivered a
\* pending message and then the callback's message.
C9_Witness ==
    /\ pc = "terminated"
    /\ handler = "WillClose"
    /\ CloseCallbackCalled(log) /\ log[1][2] # None
    /\ Len(ArgsOf(log, "update")) = 2

\* C10 as stated (refuted): when the close callback returns None no update
\* cycle runs before termination: the tree is not retired, the user update
\* is not called, subscriptions are not tracked again, WindowState is not
\* resynchronized and the tree is not rebuilt.
C10_Original ==
    (LoopLeft /\ handler = "WillClose" /\ CloseCallbackCalled(log) /\ log[1][2] = None)
    => \A i \in 1..Len(log) :
         log[i][1] \notin {"into_cache", "update", "track", "synchronize", "build"}

\* C10 amended: when WillClose finds a close callback that returns None, no
\* message is appended and still exactly one update cycle runs before the
\* loop is left: the tree is retired, the user update is called once for
\* each message that was pending (not at all when none was), subscriptions
\* are tracked again, WindowState is resynchronized and the tree is rebuilt.
C10_CloseWithoutMessage ==
    /\ [][ (pc = "wait" /\ handler' = "WillClose" /\ CloseCallbackCalled(log')
              /\ log'[1][2] = None)
           => /\ pc' = "cycle_update"
              /\ draining' = messages ]_vars
    /\ []( (LoopLeft /\ handler = "WillClose" /\ CloseCallbackCalled(log)
              /\ log[1][2] = None)
           => OneCycle(log) )
    /\ []( (handler = "WillClose" /\ CloseCallbackCalled(log) /\ ~HasOp(log, "build"))
           => ~LoopLeft )

\* C10 witness: the loop terminated after a close cycle whose callback
\* returned None and which delivered a message that was pending.
C10_Witness ==
    /\ pc = "terminated"
    /\ handler = "WillClose"
    /\ CloseCallbackCalled(log) /\ log[1][2] = None
    /\ Len(ArgsOf(log, "update")) = 1
    /\ HasOp(log, "build")

\* What the Baseview handler was handed: the first entry of its log.
HostInput(lg) == lg[1][2]

\* C11 (refuted by the code): a host input event whose translation appends
\* no normalized event is reported Ignored whenever an acknowledgement was
\* requested, and leaves did_process_event as it was; did_process_event is
\* set only by an event whose translation appended at least one normalized
\* event; and this does not depend on events still waiting in the queue.
C11_Original ==
    [][ (pc = "wait" /\ handler' = "Baseview")
        => /\ HostInput(log').appended = 0
                => /\ HostInput(log').do_send_status
                        => ArgsOf(log', "event_status") = <<"Ignored">>
                   /\ UNCHANGED did_process_event
           /\ (did_process_event' /\ ~did_process_event)
                => HostInput(log').appended > 0 ]_vars

\* C12: a Widget action whose operation chains through n Outcome::Chain
\* continuations makes exactly n + 1 calls of the tree's operate, one per
\* operation in chain order (the operation with n links left first, the
\* terminal one last), calls nothing else, and the dispatcher then returns.
C12_OperateChain ==
    (handler = "UserEvent" /\ HasOp(log, "operate"))
    => LET ops == ArgsOf(log, "operate")
           n   == ops[1]
       IN  /\ Len(ops) = n + 1
           /\ \A i \in 1..Len(ops) : ops[i] = n + 1 - i
           /\ log = <<Entry("run_action", "Widget")>>
                       \o [i \in 1..Len(ops) |-> Entry("operate", ops[i])]
           /\ pc = "done"
           /\ ui = "built"

\* C12 witness: the dispatcher has returned from an operation with two
\* continuations.
C12_Witness ==
    /\ pc = "done"
    /\ handler = "UserEvent"
    /\ ArgsOf(log, "operate") = <<2, 1, 0>>

\* Whether the sequence a is a prefix of b.
IsPrefix(a, b) == Len(a) <= Len(b) /\ SubSeq(b, 1, Len(a)) = a

\* C13: a UserEvent that dispatches an Output action appends exactly one
\* message at the end of the message queue and calls nothing (no user update,
\* the tree stays built), and no other action changes the queue; a queued
\* message leaves the queue only into the drain of an update
\* cycle; a MainEventsCleared received while a message is queued is not
\* skipped, goes through the dispatch to the update decision, and there runs
\* the update cycle over the whole queue, which the user update has consumed
\* in order when the tick ends.
C13_OutputDelivered ==
    /\ [][ (pc = "wait" /\ handler' = "UserEvent")
           => IF log'[1][2] = "Output"
                THEN /\ \E m \in Messages : messages' = Append(messages, m)
                     /\ Len(log') = 1
                     /\ pc' = "done"
                     /\ UNCHANGED <<ui, draining, events, needs_update>>
                ELSE UNCHANGED messages ]_vars
    /\ [][ \/ IsPrefix(messages, messages')
           \/ pc' = "cycle_update" /\ IsPrefix(messages, draining') ]_vars
    /\ [][ (pc = "wait" /\ handler' = "MainEventsCleared" /\ messages # <<>>)
           => pc' = "frame_dispatch" ]_vars
    /\ [][ (pc \in {"frame_dispatch", "frame_pairs"})
           => pc' \in {"frame_pairs", "frame_check"} ]_vars
    /\ [][ (pc = "frame_check" /\ messages # <<>>)
           => pc' = "cycle_update" /\ draining' = messages ]_vars
    /\ []( (handler = "MainEventsCleared" /\ pc \in {"frame_draw", "done"}
              /\ HasOp(log, "drain"))
           => ArgsOf(log, "update") = ArgsOf(log, "drain")[1] )

\* C13 witness: a tick that dispatched no event and consulted no callback
\* has delivered two messages to the user update: both were appended by
\* Output actions.
C13_Witness ==
    /\ pc = "cycle_update"
    /\ handler = "MainEventsCleared"
    /\ draining = <<>>
    /\ Len(ArgsOf(log, "update")) = 2
    /\ ~HasOp(log, "ui_update")
    /\ ~HasOp(log, "on_frame")

\* The reconciliations runtime.track made in the current handler.
Tracks(lg) == ArgsOf(lg, "track")

\* C14: in every reconciliation of the declared subscriptions with the
\* running sources, declaring the set that is running starts and cancels
\* nothing; the sources started are exactly the declared identities that
\* were not running; a source is cancelled only if its identity is no longer
\* declared, so that declaring more than was running cancels nothing; the
\* sources running afterwards are those left alone and those started; and
\* the parameter-update source of the wrapper, whose identity is the same in
\* every declaration, is running from start-up on and is never started again
\* nor cancelled.
C14_IdentityStability ==
    /\ ParameterUpdatesId("receiver") \in running
    /\ \A i \in 1..Len(Tracks(log)) :
         LET t == Tracks(log)[i]
         IN  /\ t.declared = t.before => (t.started = {} /\ t.cancelled = {})
             /\ t.started = t.declared \ t.before
             /\ t.cancelled \subseteq t.before
             /\ t.cancelled \cap t.declared = {}
             /\ t.before \subseteq t.declared => t.cancelled = {}
             /\ running = (t.before \ t.cancelled) \cup t.started
             /\ running = t.declared
             /\ ParameterUpdatesId("receiver") \notin (t.started \cup t.cancelled)

\* C14 witness: a cycle declared one identity more than was running; that
\* source was started while the parameter-update source and another editor
\* source kept running.
C14_Witness ==
    /\ pc = "cycle_sync"
    /\ \E i \in 1..Len(Tracks(log)) :
         LET t == Tracks(log)[i]
         IN  /\ Cardinality(t.before) = 2
             /\ Cardinality(t.started) = 1
             /\ t.cancelled = {}
             /\ Cardinality(running) = 3

\* C15 (refuted by the code): every parameter update sent on the channel is
\* eventually followed by an item of the parameter-update stream, the k-th
\* update sent by the k-th item at the latest, also for updates sent after
\* the stream once found the channel empty.
C15_Original ==
    \A k \in 1..MaxSent :
        (param_updates.sent >= k) ~> (param_updates.emitted >= k)

\* Whether point lies in the closed triangle whose vertices are the
\* bottom-left, bottom-right and top-right corners of bounds (y grows
\* downwards): not right of the right edge, not below the bottom edge, and on
\* or below the diagonal from the bottom-left to the top-right corner.
InTriangle(bounds, point) ==
    /\ point.x <= bounds.x + bounds.width
    /\ point.y <= bounds.y + bounds.height
    /\ (point.x - bounds.x) * bounds.height + (point.y - bounds.y) * bounds.width
          >= bounds.width * bounds.height

\* C16 (refuted by the code): intersects_triangle(bounds, point) is true
\* exactly for the points of that triangle, its edges and vertices included,
\* and false for every point strictly on the top-left side of the diagonal.
C16_Original ==
    probe.called => (probe.result <=> InTriangle(probe.bounds, probe.point))

\* What the dispatch block of the running handler published.
PublishedBy(lg) == ArgsOf(lg, "ui_update")[1].published

\* C17 (as stated): when a left-button press with the cursor inside the
\* handle's bounds is dispatched to the tree, the handle reports a resize
\* message in that same dispatch.
C17_Original ==
    (/\ handle.present
     /\ pc = "frame_pairs"
     /\ \E i \in 1..Len(dispatched.events) : dispatched.events[i].kind = "ButtonPressed"
     /\ cursor.available /\ Contains(handle.bounds, cursor))
        => PublishedBy(log) # <<>>

\* C17: a batch without a cursor move publishes nothing, and a left-button
\* press with the cursor inside the bounds only starts a drag from the size
\* the handle was built with.  A cursor move dispatched while the drag is
\* active publishes the clamped accumulated size, once, when that size differs
\* from the size published last, and nothing otherwise.  What a dispatch
\* publishes makes the update cycle of that same frame tick run and is
\* delivered to update there.  No step of the frame tick or of its cycle
\* changes the physical size or the viewport version: only a host resize to
\* a different size does, and a present request that is not skipped performs
\* exactly one relayout when the presented version is behind, none otherwise.
C17_DragResizes ==
    /\ [][(/\ pc = "frame_dispatch" /\ handle.present /\ events # <<>>
           /\ \A i \in 1..Len(events) : events[i].kind # "CursorMoved")
            => (messages' = messages /\ PublishedBy(log') = <<>>)]_vars
    /\ [][(/\ pc = "frame_dispatch" /\ handle.present
           /\ events = <<ButtonPressedEvent>>
           /\ cursor.available /\ Contains(handle.bounds, cursor))
            => (/\ handle'.drag_active
                /\ handle'.accumulated_size = handle.current_size
                /\ handle'.last_emitted_size = handle.current_size
                /\ handle'.last_cursor = [x |-> cursor.x, y |-> cursor.y])]_vars
    /\ [][(/\ pc = "frame_dispatch" /\ handle.present /\ handle.drag_active
           /\ events = <<CursorMovedEvent>> /\ cursor.available)
            => LET w == handle.accumulated_size.width + (cursor.x - handle.last_cursor.x)
                   h == handle.accumulated_size.height + (cursor.y - handle.last_cursor.y)
                   size == SizeOf(IF w < min_width THEN min_width ELSE w,
                                  IF h < min_height THEN min_height ELSE h)
               IN  /\ handle'.accumulated_size = size
                   /\ handle'.last_emitted_size = size
                   /\ PublishedBy(log') =
                        (IF size # handle.last_emitted_size
                           THEN <<OnResize(size)>> ELSE <<>>)
                   /\ messages' = messages \o PublishedBy(log')]_vars
    /\ [][(pc = "frame_check" /\ handle.present /\ messages # <<>>)
            => (pc' = "cycle_update" /\ draining' = messages)]_vars
    /\ [][(handle.present /\ handler = "MainEventsCleared" /\ pc' = "done"
             /\ HasOp(log', "ui_update"))
            => ArgsOf(log', "update") = PublishedBy(log')]_vars
    /\ [][(handle.present /\ <<physical_size, state_version>>' # <<physical_size, state_version>>)
            => (/\ pc = "wait" /\ handler' = "Baseview"
                /\ physical_size' # physical_size
                /\ state_version' = state_version + 1)]_vars
    /\ [][(handle.present /\ pc = "wait" /\ handler' = "RedrawRequested" /\ pc' = "present")
            => CountOp(log', "relayout") =
                 (IF viewport_version # state_version THEN 1 ELSE 0)]_vars

\* A frame tick has ended in which a move of an active drag published a size
\* and the update cycle of that tick delivered it.
C17_Witness ==
    /\ handle.present
    /\ pc = "done" /\ handler = "MainEventsCleared"
    /\ handle.drag_active
    /\ HasOp(log, "ui_update")
    /\ PublishedBy(log) = <<OnResize(handle.accumulated_size)>>
    /\ ArgsOf(log, "update") = PublishedBy(log)
    /\ handle.accumulated_size # handle.current_size
    /\ handle.accumulated_size.width > min_width

\* The calls that need the built tree.
TreeOps == {"ui_update", "draw", "relayout", "operate"}

\* C18: while the loop runs the tree is either built or retired to its
\* cache, and it is retired exactly during an update cycle; the tree is
\* built whenever an event is received and wherever the loop is about to
\* dispatch events, draw or present; every call of the user update comes
\* after the tree was retired and before it is rebuilt; and no dispatch,
\* draw, relayout or operate is made between a retirement and the rebuild
\* that follows it.
C18_TreePhases ==
    /\ pc # "terminated" => ui \in {"built", "cached"}
    /\ ui = "cached" <=> pc \in {"cycle_update", "cycle_sync", "cycle_build"}
    /\ pc \in {"wait", "frame_dispatch", "frame_pairs", "frame_check", "frame_draw",
               "present", "done"} => ui = "built"
    /\ \A j \in 1..Len(log) :
         log[j][1] = "update"
           => /\ \E i \in 1..(j - 1) : log[i][1] = "into_cache"
              /\ \A k \in 1..(j - 1) : log[k][1] # "build"
    /\ \A j \in 1..Len(log) :
         log[j][1] \in TreeOps
           => \A i \in 1..(j - 1) :
                log[i][1] = "into_cache"
                  => \E k \in (i + 1)..(j - 1) : log[k][1] = "build"

\* C18 witness: a tick that dispatched events, ran an update cycle that
\* called the user update, and drew the rebuilt tree.
C18_Witness ==
    /\ pc = "done"
    /\ handler = "MainEventsCleared"
    /\ HasOp(log, "ui_update") /\ HasOp(log, "update") /\ HasOp(log, "draw")
    /\ Precedes(log, "build", "draw")
    /\ ui = "built"

\* The action run_action was handed in the current UserEvent.
Dispatched(lg) == IF lg = <<>> THEN "none" ELSE lg[1][2]

\* C19: a dispatched Exit action makes one close_window request to the
\* window queue and nothing else, and whether the request succeeds or fails
\* the dispatcher returns with the tree built and the loop goes on to its
\* next iteration; the loop is left only by WillClose or by the end of the
\* event channel.
C19_ExitRequestsClose ==
    /\ (handler = "UserEvent" /\ Dispatched(log) = "Exit")
         => /\ Len(log) = 2
            /\ log[2][1] = "close_window"
            /\ pc = "done"
            /\ ui = "built"
            /\ ENABLED NextIteration
    /\ pc \in {"loop_exit", "terminated"} => handler \in {"WillClose", "closed"}

\* C19 witness: the dispatcher has returned from an Exit whose close request
\* failed.
C19_Witness ==
    /\ pc = "done"
    /\ handler = "UserEvent"
    /\ log = <<Entry("run_action", "Exit"), Entry("close_window", "Err")>>

\* C20 as stated (refuted): a dispatched Exit or Reload action stops with
\* the unimplemented signal and makes no window-close request.
C20_Original ==
    (handler = "UserEvent" /\ Dispatched(log) \in {"Exit", "Reload"})
    => /\ pc = "aborted"
       /\ HasOp(log, "todo")
       /\ ~HasOp(log, "close_window")

\* C20 amended: a dispatched Reload action stops with the unimplemented
\* signal and does nothing else: no window-close request, no change of the
\* queues, of the tree or of the loop's flags.  A dispatched Exit action does
\* not stop: it makes a window-close request, changes no queue and returns.
\* No other action stops the dispatcher.
C20_ReloadFailsFast ==
    /\ [][ (pc = "wait" /\ handler' = "UserEvent" /\ Dispatched(log') = "Reload")
           => /\ pc' = "aborted"
              /\ log' = <<Entry("run_action", "Reload"), Entry("todo", None)>>
              /\ UNCHANGED <<events, messages, draining, pairs, ui, window_subs,
                             needs_update, redraw_requested, did_process_event,
                             viewport_version, state_version, running>> ]_vars
    /\ [][ (pc = "wait" /\ handler' = "UserEvent" /\ Dispatched(log') = "Exit")
           => /\ pc' = "done"
              /\ HasOp(log', "close_window") /\ ~HasOp(log', "todo")
              /\ UNCHANGED <<events, messages, draining, pairs, ui>> ]_vars
    /\ []( (handler = "UserEvent" /\ pc = "aborted") => Dispatched(log) = "Reload" )

\* C20 witness: the dispatcher stopped on a Reload while a message and an
\* event were queued.
C20_Witness ==
    /\ pc = "aborted"
    /\ handler = "UserEvent"
    /\ HasOp(log, "todo")
    /\ messages # <<>>
    /\ events # <<>>


\* The slots the editor left registered in the subscription call of the
\* running handler's update cycle.
EditorRegistered(lg) == ArgsOf(lg, "track")[1].slots

\* C21 (refuted by the code): a resize callback that the editor registers in
\* the slots handed to its subscription function is the driver's resize
\* callback once the subscription call of that update cycle has returned.
C21_Original ==
    (wrapped /\ HasOp(log, "track") /\ EditorRegistered(log).on_resize)
        => window_subs.on_resize


\* C22: Terminated is absorbing.  Once WillClose has been handled or the end
\* of the event channel observed, the loop is left: the only step still taken
\* drops the tree, it calls nothing (no update, operate, action dispatch or
\* present) and delivers nothing of what is still queued, and from the
\* terminated state no step is taken at all.
C22_TerminatedAbsorbing ==
    /\ [][pc = "loop_exit"
            => (/\ handler \in {"WillClose", "closed"}
                /\ pc' = "terminated"
                /\ ui' = "dropped"
                /\ UNCHANGED <<log, events, messages, draining, pairs, handler,
                               viewport_version, window_subs, running>>)]_vars
    /\ [][pc # "terminated"]_vars

\* The loop has terminated with an event and a message still queued, and the
\* tree dropped.
C22_Witness ==
    /\ pc = "terminated"
    /\ ui = "dropped"
    /\ events # <<>>
    /\ messages # <<>>


\* C23: at every frame tick, skipped or not, a registered frame callback is
\* invoked exactly once, before anything else of the tick (the idle-skip test
\* included), and an unregistered one never.  A message it returns is appended
\* to the message queue and the tick is not skipped; at the end of the tick
\* the update cycle of that tick has consumed it and the queue is empty.
C23_FrameCallback ==
    /\ [][(pc = "wait" /\ handler' = "MainEventsCleared")
            => IF window_subs.on_frame
                 THEN /\ Len(log') = 1 /\ log'[1][1] = "on_frame"
                      /\ messages' = PushOpt(messages, log'[1][2])
                      /\ log'[1][2] # None => pc' = "frame_dispatch"
                 ELSE log' = <<>> /\ messages' = messages]_vars
    /\ [](handler = "MainEventsCleared"
            => /\ CountOp(log, "on_frame") <= 1
               /\ HasOp(log, "on_frame") => log[1][1] = "on_frame")
    /\ []((/\ handler = "MainEventsCleared" /\ pc = "done"
           /\ HasOp(log, "on_frame") /\ log[1][2] # None)
            => /\ messages = <<>>
               /\ HasOp(log, "drain")
               /\ \E k \in 1..Len(ArgsOf(log, "drain")[1]) :
                    /\ ArgsOf(log, "drain")[1][k] = log[1][2]
                    /\ ArgsOf(log, "update")[k] = log[1][2])

\* A frame tick with no event to dispatch has ended; only the message the
\* frame callback returned kept it from being skipped, and the update cycle
\* of the tick delivered that message.
C23_Witness ==
    /\ handler = "MainEventsCleared" /\ pc = "done"
    /\ ticked
    /\ ~always_redraw
    /\ HasOp(log, "on_frame") /\ log[1][2] # None
    /\ ~HasOp(log, "ui_update")
    /\ ArgsOf(log, "update") = <<log[1][2]>>


\* The Resized events among the pairs a dispatch block has gone through.
ResizedOf(bs) == SelectSeq(bs, LAMBDA p : p.event.kind = "Resized")

\* The messages a sequence of callback results carries.
SomeOf(rets) == SelectSeq(rets, LAMBDA r : r # None)

\* The last n elements of q.
Suffix(q, n) == SubSeq(q, Len(q) - n + 1, Len(q))

\* C24: while the pairs of a dispatch are gone through with a resize callback
\* registered, the callback has been invoked once for each Resized event so
\* far, in order and with that event's size, and for no other event; without
\* a callback nothing is invoked.  The messages returned are at the back of
\* the message queue in event order, and by the end of the tick the update
\* cycle of that tick has delivered them, in that order, and left the queue
\* empty.
C24_ResizeCallback ==
    /\ (handler = "MainEventsCleared" /\ pc \in {"frame_pairs", "frame_check"})
          => LET calls == ArgsOf(log, "on_resize")
                 resized == ResizedOf(broadcasts)
                 rets == SomeOf([i \in 1..Len(calls) |-> calls[i].ret])
             IN  /\ IF window_subs.on_resize
                      THEN [i \in 1..Len(calls) |-> calls[i].size]
                             = [i \in 1..Len(resized) |->
                                  <<resized[i].event.w, resized[i].event.h>>]
                      ELSE calls = <<>>
                 /\ Len(rets) <= Len(messages)
                 /\ Suffix(messages, Len(rets)) = rets
    /\ (handler = "MainEventsCleared" /\ pc = "done" /\ HasOp(log, "on_resize"))
          => LET calls == ArgsOf(log, "on_resize")
                 rets == SomeOf([i \in 1..Len(calls) |-> calls[i].ret])
             IN  /\ messages = <<>>
                 /\ rets # <<>> =>
                      /\ HasOp(log, "drain")
                      /\ Suffix(ArgsOf(log, "drain")[1], Len(rets)) = rets
                      /\ Suffix(ArgsOf(log, "update"), Len(rets)) = rets

\* A frame tick has ended in which two Resized events of different sizes were
\* dispatched, the callback returned a different message for each, and the
\* update cycle delivered the two in event order.
C24_Witness ==
    /\ handler = "MainEventsCleared" /\ pc = "done"
    /\ CountOp(log, "on_resize") = 2
    /\ ArgsOf(log, "on_resize")[1].size # ArgsOf(log, "on_resize")[2].size
    /\ ArgsOf(log, "on_resize")[1].ret # None
    /\ ArgsOf(log, "on_resize")[2].ret # None
    /\ ArgsOf(log, "on_resize")[1].ret # ArgsOf(log, "on_resize")[2].ret
    /\ ArgsOf(log, "update")
         = <<ArgsOf(log, "on_resize")[1].ret, ArgsOf(log, "on_resize")[2].ret>>


\* The size a resize message carries.
SizeIn(message) == SizeOf(message \div 1000, message % 1000)

\* C25: every size the resize handle publishes has width >= min_width and
\* height >= min_height, whatever events came before and whatever size the
\* handle was built with, a size under the minimum included.
C25_MinimumSize ==
    (handle.present /\ HasOp(log, "ui_update"))
        => \A i \in 1..Len(PublishedBy(log)) :
             /\ OnResize(SizeIn(PublishedBy(log)[i])) = PublishedBy(log)[i]
             /\ SizeIn(PublishedBy(log)[i]).width >= min_width
             /\ SizeIn(PublishedBy(log)[i]).height >= min_height

\* A drag that started from a width under the minimum has published a size,
\* which is the minimum size.
C25_Witness ==
    /\ handle.present
    /\ pc = "frame_pairs"
    /\ handle.drag_active
    /\ handle.start_size.width < min_width
    /\ PublishedBy(log) = <<OnResize(SizeOf(min_width, min_height))>>


\* The calls of ResizeHandle::update made by the dispatch of the running
\* handler, and whether a call was a left-button press inside the bounds.
HandleCalls(lg) == ArgsOf(lg, "handle_update")
PressInside(c) ==
    /\ c.event.kind = "ButtonPressed"
    /\ cursor.available /\ Contains(c.before.bounds, cursor)

\* C26: the handle never publishes the same size twice in a row within a
\* drag.  last_emitted_size is the size recorded at the press that started
\* the drag until the drag publishes, and the size published last from then
\* on: a press inside the bounds sets it to the size the handle was built
\* with, a call that publishes sets it to the size published, and no other
\* call changes it.  A call publishes at most one size, only during a drag,
\* and that size differs from last_emitted_size as it was before the call.
\* During a drag the accumulated size equals last_emitted_size between calls,
\* and a cursor move that leaves the accumulated size unchanged publishes
\* nothing.
C26_NoDuplicateSizes ==
    handle.present =>
      /\ handle.drag_active => handle.accumulated_size = handle.last_emitted_size
      /\ \A i \in 1..Len(HandleCalls(log)) :
           LET c == HandleCalls(log)[i]
           IN  /\ Len(c.published) <= 1
               /\ c.published # <<>> =>
                    /\ c.before.drag_active /\ c.after.drag_active
                    /\ SizeIn(c.published[1]) # c.before.last_emitted_size
                    /\ c.after.last_emitted_size = SizeIn(c.published[1])
               /\ PressInside(c) =>
                    /\ c.after.start_size = c.before.current_size
                    /\ c.after.last_emitted_size = c.before.current_size
               /\ (c.published = <<>> /\ ~PressInside(c)) =>
                    c.after.last_emitted_size = c.before.last_emitted_size
               /\ (c.event.kind = "CursorMoved"
                     /\ c.after.accumulated_size = c.before.accumulated_size) =>
                    c.published = <<>>

\* A drag that had already published a size has published another one, and a
\* move of that same batch that left the accumulated size alone published
\* nothing.
C26_Witness ==
    /\ handle.present
    /\ pc = "frame_pairs"
    /\ Len(HandleCalls(log)) = 2
    /\ HandleCalls(log)[1].before.drag_active
    /\ HandleCalls(log)[1].before.last_emitted_size
         # HandleCalls(log)[1].before.start_size
    /\ HandleCalls(log)[1].published # <<>>
    /\ HandleCalls(log)[2].event.kind = "CursorMoved"
    /\ HandleCalls(log)[2].published = <<>>


\* The fields of the widget State.
DragState(h) ==
    <<h.drag_active, h.start_size, h.last_cursor, h.accumulated_size,
      h.last_emitted_size>>

\* C27: the drag is active exactly when a left-button press with the cursor
\* inside the bounds has occurred and no left-button release after it.  The
\* widget starts with no drag; a press inside the bounds leaves the drag
\* active, a release leaves it inactive, and every other call of update (a
\* press outside the bounds or without a cursor position, a cursor move, any
\* other event) leaves it as it was; between the calls nothing changes the
\* widget State.  While no drag is active a cursor move publishes nothing and
\* changes no widget state.
C27_DragActive ==
    /\ [](handle.present =>
            \A i \in 1..Len(HandleCalls(log)) :
              LET c == HandleCalls(log)[i]
              IN  /\ c.after.drag_active =
                       (IF PressInside(c) THEN TRUE
                        ELSE IF c.event.kind = "ButtonReleased" THEN FALSE
                        ELSE c.before.drag_active)
                  /\ (c.event.kind = "ButtonPressed" /\ ~PressInside(c))
                        => c.after = c.before
                  /\ (c.event.kind = "CursorMoved" /\ ~c.before.drag_active)
                        => (c.published = <<>> /\ c.after = c.before)
                  /\ i > 1 => c.before = HandleCalls(log)[i - 1].after
                  /\ i = Len(HandleCalls(log))
                        => DragState(handle) = DragState(c.after))
    /\ [][handle.present =>
            IF pc = "frame_dispatch" /\ events # <<>>
              THEN /\ Len(HandleCalls(log')) = Len(events)
                   /\ HandleCalls(log')[1].before = handle
                   /\ \A i \in 1..Len(events) : HandleCalls(log')[i].event = events[i]
              ELSE DragState(handle') = DragState(handle)]_vars

\* After an earlier drag that a release ended, a press outside the bounds and
\* a cursor move have been dispatched in one batch, and no drag is active.
C27_Witness ==
    /\ handle.present
    /\ pc = "frame_pairs"
    /\ cursor.available
    /\ Len(HandleCalls(log)) = 2
    /\ HandleCalls(log)[1].event.kind = "ButtonPressed"
    /\ ~PressInside(HandleCalls(log)[1])
    /\ HandleCalls(log)[2].event.kind = "CursorMoved"
    /\ ~handle.drag_active
    /\ handle.start_size # SizeOf(0, 0)


\* C28: when a frame tick that was not idle-skipped ends, the event queue and
\* the message queue are empty, needs_update and did_process_event are false
\* and redraw_requested is true.
C28_AfterFrameTick ==
    (handler = "MainEventsCleared" /\ pc = "done" /\ HasOp(log, "draw"))
        => /\ events = <<>>
           /\ messages = <<>>
           /\ ~needs_update
           /\ ~did_process_event
           /\ redraw_requested

\* A frame tick has ended that dispatched events, ran its update cycle with a
\* message to deliver, and drew.
C28_Witness ==
    /\ handler = "MainEventsCleared" /\ pc = "done"
    /\ HasOp(log, "draw")
    /\ HasOp(log, "ui_update")
    /\ HasOp(log, "on_resize")
    /\ HasOp(log, "update")
    /\ events = <<>> /\ messages = <<>>


\* C29: with no close callback registered, WillClose leaves the loop at once:
\* update is not called and the messages still pending stay in the queue,
\* never delivered.  With a close callback registered the final update cycle
\* delivers every pending message, followed by the callback's message when it
\* returned one, whether it returned one or not.
C29_ClosePending ==
    /\ [][(pc = "wait" /\ handler' = "WillClose")
            => IF window_subs.on_window_will_close
                 THEN /\ Len(log') >= 1 /\ log'[1][1] = "on_window_will_close"
                      /\ pc' = "cycle_update"
                      /\ draining' = PushOpt(messages, log'[1][2])
                      /\ messages' = <<>>
                 ELSE /\ pc' = "loop_exit"
                      /\ log' = <<>>
                      /\ messages' = messages]_vars
    /\ []((handler = "WillClose" /\ pc \in {"loop_exit", "terminated"})
            => IF HasOp(log, "on_window_will_close")
                 THEN /\ HasOp(log, "drain")
                      /\ ArgsOf(log, "update") = ArgsOf(log, "drain")[1]
                      /\ messages = <<>>
                 ELSE ~HasOp(log, "update"))

\* WillClose has ended the loop with no close callback registered, and a
\* message that was pending is still in the queue, undelivered.
C29_Witness ==
    /\ handler = "WillClose" /\ pc = "loop_exit"
    /\ ~window_subs.on_window_will_close
    /\ log = <<>>
    /\ messages # <<>>


\* C30: redraw_requested is true in every state of the loop, so a
\* RedrawRequested is skipped only when the physical size has zero width or
\* zero height: it gets as far as compositor.present exactly when the size is
\* not degenerate, and then calls it once.
C30_AlwaysRedrawRequested ==
    /\ redraw_requested
    /\ (handler = "RedrawRequested" /\ pc = "present")
          => (~Degenerate /\ ~HasOp(log, "present"))
    /\ (handler = "RedrawRequested" /\ pc \in {"done", "aborted"})
          => IF Degenerate THEN log = <<>> ELSE CountOp(log, "present") = 1

\* With always_redraw off and no frame tick drawn yet, a RedrawRequested that
\* follows an earlier one which was not skipped has presented successfully,
\* and redraw_requested is still true.
C30_Witness ==
    /\ handler = "RedrawRequested" /\ pc = "done"
    /\ ~always_redraw
    /\ ~ticked
    /\ ArgsOf(log, "present") = <<"Ok">>
    /\ ~HasOp(log, "relayout")
    /\ state_version > 0
    /\ relayouts = 1
    /\ redraw_requested


\* The cycle step that calls application.subscription.
SubscriptionCall == pc = "cycle_update" /\ pc' = "cycle_sync"

\* C31 (as stated): through the wrapper, once a slot yields the messages of a
\* callback the editor registered, it yields that callback's messages after
\* every later subscription call.
C31_Original ==
    [][wrapped =>
         /\ producing.on_frame \in Messages
               => producing'.on_frame = producing.on_frame
         /\ producing.on_window_will_close \in Messages
               => producing'.on_window_will_close = producing.on_window_will_close]_vars

\* C31: through the wrapper a frame or will-close callback cannot be
\* unregistered, only replaced.  A slot of the driver that holds a callback
\* holds one ever after, and a slot that yields the messages of an editor
\* callback is registered.  Only a subscription call changes whose messages a
\* slot yields, and only when the editor leaves a callback of its own in the
\* slot, whose messages the slot yields from then on; a call in which the
\* editor empties the slot, or leaves it as handed in, changes nothing.  Every
\* frame tick and every WillClose invokes the registered slot, and what it
\* returns is None or the message of the callback the slot yields.
C31_ReplacedOnly ==
    /\ [][wrapped =>
            /\ window_subs.on_frame => window_subs'.on_frame
            /\ window_subs.on_window_will_close => window_subs'.on_window_will_close]_vars
    /\ [](wrapped =>
            /\ producing.on_frame \in Messages => window_subs.on_frame
            /\ producing.on_window_will_close \in Messages
                  => window_subs.on_window_will_close)
    /\ [][(wrapped /\ producing' # producing) => SubscriptionCall]_vars
    /\ [][(wrapped /\ SubscriptionCall) =>
            LET call == ArgsOf(log', "track")[1]
            IN  /\ producing'.on_frame =
                     (IF call.slots.on_frame /\ call.callbacks.on_frame \in Messages
                        THEN call.callbacks.on_frame ELSE producing.on_frame)
                /\ producing'.on_window_will_close =
                     (IF call.slots.on_window_will_close
                           /\ call.callbacks.on_window_will_close \in Messages
                        THEN call.callbacks.on_window_will_close
                        ELSE producing.on_window_will_close)]_vars
    /\ [][(wrapped /\ pc = "wait" /\ handler' = "MainEventsCleared"
             /\ window_subs.on_frame)
            => (/\ Len(log') = 1 /\ log'[1][1] = "on_frame"
                /\ log'[1][2] \in {None, producing.on_frame})]_vars
    /\ [][(wrapped /\ pc = "wait" /\ handler' = "WillClose"
             /\ window_subs.on_window_will_close)
            => (/\ Len(log') >= 1 /\ log'[1][1] = "on_window_will_close"
                /\ log'[1][2] \in {None, producing.on_window_will_close})]_vars

\* A frame tick has ended in which the frame callback returned the message
\* of an editor callback and update was called; in the subscription call of
\* that tick's cycle the editor emptied the on_frame slot, and the driver's
\* slot is still registered and still yields that callback's messages.
C31_Witness ==
    /\ wrapped
    /\ handler = "MainEventsCleared" /\ pc = "done"
    /\ HasOp(log, "on_frame") /\ log[1][2] \in Messages
    /\ HasOp(log, "update")
    /\ HasOp(log, "track")
    /\ ~EditorRegistered(log).on_frame
    /\ window_subs.on_frame
    /\ producing.on_frame = log[1][2]


\* The idle-skip test as the specification words it: nothing queued, nothing
\* pending and no forced redraw.
NothingToDo == events = <<>> /\ messages = <<>> /\ ~always_redraw

\* C32: whenever the loop is about to take an event, did_process_event true
\* implies a non-empty event queue; so the idle-skip test of the code, which
\* also looks at did_process_event, skips a frame tick exactly when the event
\* queue and the message queue are empty and no redraw is forced.
C32_FlagImpliesEvents ==
    /\ (pc \in {"wait", "done"} /\ did_process_event) => events # <<>>
    /\ (handler = "MainEventsCleared" /\ pc = "frame_dispatch") => ~NothingToDo
    /\ (handler = "MainEventsCleared" /\ pc = "done" /\ ~HasOp(log, "draw"))
          => (NothingToDo /\ ~HasOp(log, "ui_update") /\ ~HasOp(log, "update"))

\* The loop is about to take an event, after an earlier frame tick that was
\* not skipped, with did_process_event true and two events queued.
C32_Witness ==
    /\ pc = "wait"
    /\ ticked
    /\ ~always_redraw
    /\ did_process_event
    /\ Len(events) = 2

=============================================================================
